---- MODULE Spec2Model ----
(***************************************************************************)
(* A model of refrapt, a Debian repository mirroring tool.                 *)
(*                                                                         *)
(* Strings are sequences of tokens.  The separators that the code's        *)
(* regular expressions and path functions look at ("/", ".", ":", " ")     *)
(* are tokens of their own; every other token is an atomic run of          *)
(* characters of one class (digits, word characters, other).               *)
(***************************************************************************)
EXTENDS Integers, Sequences, FiniteSets, TLC

(***************************************************************************)
(* Token classes                                                           *)
(***************************************************************************)

\* Tokens made of decimal digits only (regex \d+).
DigitTokens == {"80", "42", "50", "100"}

\* Tokens made of word characters only (regex \w+).
WordTokens ==
    DigitTokens \cup
    {"http", "a", "b", "debian", "flat", "dists", "bookworm", "main", "pool",
     "InRelease", "Release", "Packages", "Sources", "source", "amd64",
     "xz", "gz", "bz2", "gpg", "deb", "dsc", "x_1", "y_1", "orphan", "c1", "c2",
     "Filename", "Size", "Files", "Directory", "Package", "SHA256", "MD5sum",
     "SHA1", "MD5Sum", "Hash", "Origin", "Flat"}

\* Tokens made of word characters and dashes (regex [\w\-]+).
WordDashTokens == WordTokens \cup {"binary-", "-", "Installed-Size"}

IsDigits(t) == t \in DigitTokens

IsWord(t) == t \in WordTokens

IsWordDash(t) == t \in WordDashTokens

(***************************************************************************)
(* Sequence helpers                                                        *)
(***************************************************************************)

Drop(s, n) == SubSeq(s, n + 1, Len(s))

Take(s, n) == SubSeq(s, 1, n)

IsPrefix(p, s) == Len(p) <= Len(s) /\ Take(s, Len(p)) = p

Range(s) == {s[i] : i \in 1..Len(s)}

\* Length of the longest prefix of s whose tokens are all in the class C.
RECURSIVE RunLen(_, _)
RunLen(s, C) ==
    IF s = <<>> \/ Head(s) \notin C THEN 0 ELSE 1 + RunLen(Tail(s), C)

\* Length of the longest prefix of s with no token of X.
RECURSIVE RunLenNot(_, _)
RunLenNot(s, X) ==
    IF s = <<>> \/ Head(s) \in X THEN 0 ELSE 1 + RunLenNot(Tail(s), X)

\* Index of the last occurrence of token t in s, 0 when there is none
\* (str.rfind, 1-based).
RFind(s, t) ==
    LET idx == {i \in 1..Len(s) : s[i] = t}
    IN  IF idx = {} THEN 0 ELSE CHOOSE i \in idx : \A j \in idx : j <= i

\* str.split(sep): the pieces of s between occurrences of the token sep.
RECURSIVE SplitOn(_, _)
SplitOn(s, sep) ==
    LET idx == {i \in 1..Len(s) : s[i] = sep}
    IN  IF idx = {} THEN <<s>>
        ELSE LET i == CHOOSE k \in idx : \A j \in idx : k <= j
             IN  <<Take(s, i - 1)>> \o SplitOn(Drop(s, i), sep)

\* filter(None, pieces): the non-empty pieces.
NonEmpty(pieces) == SelectSeq(pieces, LAMBDA p : p # <<>>)

\* sep.join(pieces)
RECURSIVE JoinWith(_, _)
JoinWith(pieces, sep) ==
    IF pieces = <<>> THEN <<>>
    ELSE IF Len(pieces) = 1 THEN pieces[1]
    ELSE pieces[1] \o <<sep>> \o JoinWith(Tail(pieces), sep)

\* A deterministic enumeration of a finite set (list(set(...)) has some order).
RECURSIVE SetToSeq(_)
SetToSeq(S) ==
    IF S = {} THEN <<>>
    ELSE LET x == CHOOSE y \in S : TRUE IN <<x>> \o SetToSeq(S \ {x})

(***************************************************************************)
(* helpers.SanitiseUri, os.path.normpath, os.path.splitext, os.path.join   *)
(***************************************************************************)

\* re.sub(r"^(\w+)://", "", uri)
DropScheme(uri, n) ==
    IF n >= 1 /\ Len(uri) >= n + 3
       /\ SubSeq(uri, n + 1, n + 3) = <<":", "/", "/">>
    THEN Drop(uri, n + 3)
    ELSE uri

StripScheme(uri) == DropScheme(uri, RunLen(uri, WordTokens))

\* re.sub(r":\d+", "", uri)
RECURSIVE StripPorts(_)
StripPorts(uri) ==
    IF uri = <<>> THEN <<>>
    ELSE IF Head(uri) = ":" /\ RunLen(Tail(uri), DigitTokens) >= 1
         THEN StripPorts(Drop(uri, 1 + RunLen(Tail(uri), DigitTokens)))
         ELSE <<Head(uri)>> \o StripPorts(Tail(uri))

SanitiseUri(uri) == StripPorts(StripScheme(uri))

\* The component stack of posixpath.normpath: "" and "." are skipped, ".."
\* pops a component, is dropped at the root, and is kept otherwise.
RECURSIVE NormComps(_, _, _)
NormComps(comps, acc, absolute) ==
    IF comps = <<>> THEN acc
    ELSE LET c == Head(comps)
         IN  IF c = <<>> \/ c = <<".">> THEN NormComps(Tail(comps), acc, absolute)
             ELSE IF c # <<".", ".">>
                     \/ (~absolute /\ acc = <<>>)
                     \/ (acc # <<>> /\ acc[Len(acc)] = <<".", ".">>)
                  THEN NormComps(Tail(comps), Append(acc, c), absolute)
                  ELSE IF acc # <<>>
                       THEN NormComps(Tail(comps), Take(acc, Len(acc) - 1), absolute)
                       ELSE NormComps(Tail(comps), acc, absolute)

\* posixpath.normpath
LeadingSlashes(path) ==
    IF Head(path) # "/" THEN 0
    ELSE IF Len(path) >= 2 /\ path[2] = "/" /\ ~(Len(path) >= 3 /\ path[3] = "/")
         THEN 2 ELSE 1

DotIfEmpty(path) == IF path = <<>> THEN <<".">> ELSE path

normpath(path) ==
    IF path = <<>> THEN <<".">>
    ELSE DotIfEmpty([i \in 1..LeadingSlashes(path) |-> "/"]
                    \o JoinWith(NormComps(SplitOn(path, "/"), <<>>,
                                          LeadingSlashes(path) > 0), "/"))

\* posixpath.splitext(p)[0]: the path without the extension of its last
\* component; leading dots of that component do not start an extension.
splitext(p) ==
    LET sepIndex == RFind(p, "/")
        dotIndex == RFind(p, ".")
    IN  IF dotIndex > sepIndex
           /\ \E k \in (sepIndex + 1)..(dotIndex - 1) : p[k] # "."
        THEN Take(p, dotIndex - 1)
        ELSE p

\* posixpath.join(a, b)
join(a, b) ==
    IF b # <<>> /\ Head(b) = "/" THEN b
    ELSE IF a = <<>> \/ a[Len(a)] = "/" THEN a \o b
    ELSE a \o <<"/">> \o b

\* str.strip() / str.rstrip(): blanks and line ends are whitespace.
Whitespace == {" ", "\n"}

RECURSIVE LStrip(_)
LStrip(s) == IF s # <<>> /\ Head(s) \in Whitespace THEN LStrip(Tail(s)) ELSE s

RECURSIVE RStrip(_)
RStrip(s) ==
    IF s # <<>> /\ s[Len(s)] \in Whitespace THEN RStrip(Take(s, Len(s) - 1)) ELSE s

Strip(s) == LStrip(RStrip(s))

\* "sub in s" for strings: sub occurs in s as a contiguous run.
Contains(s, sub) ==
    \E i \in 0..(Len(s) - Len(sub)) : SubSeq(s, i + 1, i + Len(sub)) = sub

\* int(s) of a string of digits.
ToInt(s) ==
    CASE s = <<"42">>  -> 42
      [] s = <<"50">>  -> 50
      [] s = <<"80">>  -> 80
      [] s = <<"100">> -> 100

(***************************************************************************)
(* The three directory trees (skel/, mirror/, var/) and the remote archive *)
(*                                                                         *)
(* A tree maps the normalised path of every entry below its root to a      *)
(* record; kind is "file" (regular), "link" (symbolic link to a file) or   *)
(* "dir".  whole = FALSE marks a file whose transfer was cut short.        *)
(***************************************************************************)

EmptyTree == [p \in {} |-> 0]

Plain(lines) == [format |-> "plain", lines |-> lines]

NoData == Plain(<<>>)

File(size, mtime, data) ==
    [kind |-> "file", size |-> size, mtime |-> mtime, data |-> data, whole |-> TRUE]

Dir == [kind |-> "dir", size |-> 0, mtime |-> 0, data |-> NoData, whole |-> TRUE]

\* The proper ancestors of a normalised relative path.
Ancestors(p) == {Take(p, i - 1) : i \in {k \in 2..Len(p) : p[k] = "/"}}

\* pathlib.Path(p).parent; <<>> stands for the root of the tree.
DirName(q) == IF RFind(q, "/") = 0 THEN <<>> ELSE Take(q, RFind(q, "/") - 1)

Parent(p) == DirName(normpath(p))

\* The tree has an entry of one of the kinds at the normalised path q.
HasKind(tree, q, kinds) == q \in DOMAIN tree /\ tree[q].kind \in kinds

isfile(tree, p) == HasKind(tree, normpath(p), {"file", "link"})

islink(tree, p) == HasKind(tree, normpath(p), {"link"})

isdir(tree, p) == p = <<>> \/ HasKind(tree, normpath(p), {"dir"})

getmtime(tree, p) == tree[normpath(p)].mtime

getsize(tree, p) == tree[normpath(p)].size

\* open(p, "w") and the writes that follow; missing directories are made
\* (wget and makedirs make them).
WriteAt(tree, q, f) ==
    [x \in DOMAIN tree \cup {q} \cup Ancestors(q) |->
        IF x = q THEN f
        ELSE IF x \in DOMAIN tree THEN tree[x] ELSE Dir]

WriteFile(tree, p, f) == WriteAt(tree, normpath(p), f)

\* os.remove
RemoveFile(tree, p) == [x \in DOMAIN tree \ {normpath(p)} |-> tree[x]]

RemoveFiles(tree, ps) == [x \in DOMAIN tree \ {normpath(p) : p \in ps} |-> tree[x]]

\* The paths os.walk(top) yields with join(root, file): every non-directory
\* below top.
walk(tree, top) ==
    LET t == normpath(top)
    IN  {p \in DOMAIN tree : tree[p].kind # "dir" /\ IsPrefix(t \o <<"/">>, p)}

(***************************************************************************)
(* classes.Timestamp, classes.PackageCollection, classes.SourceCollection  *)
(*                                                                         *)
(* A collection maps its keys (<<component, architecture, file>> for       *)
(* Packages indices, <<component, file>> for Sources indices) to a         *)
(* Timestamp.  set is the record of the Settings flags.                    *)
(***************************************************************************)

Timestamp == [Current |-> 0, Download |-> 0]

TimestampModified(ts) == ts.Current # ts.Download

EmptyCollection == [k \in {} |-> Timestamp]

PackageAdd(coll, component, architecture, file) ==
    LET key == <<component, architecture, SanitiseUri(file)>>
    IN  [k \in DOMAIN coll \cup {key} |-> IF k = key THEN Timestamp ELSE coll[k]]

SourceAdd(coll, component, file) ==
    LET key == <<component, SanitiseUri(file)>>
    IN  [k \in DOMAIN coll \cup {key} |-> IF k = key THEN Timestamp ELSE coll[k]]

PackageDetermineCurrentTimestamps(coll, skelTree) ==
    [k \in DOMAIN coll |->
        IF isfile(skelTree, k[3])
        THEN [coll[k] EXCEPT !.Current = getmtime(skelTree, SanitiseUri(k[3]))]
        ELSE coll[k]]

SourceDetermineCurrentTimestamps(coll, skelTree) ==
    [k \in DOMAIN coll |->
        IF isfile(skelTree, k[2])
        THEN [coll[k] EXCEPT !.Current = getmtime(skelTree, SanitiseUri(k[2]))]
        ELSE coll[k]]

\* Entries whose file is not on disk after the download are removed.
PackageDetermineDownloadTimestamps(coll, skelTree) ==
    [k \in {x \in DOMAIN coll : isfile(skelTree, x[3])} |->
        [coll[k] EXCEPT !.Download = getmtime(skelTree, SanitiseUri(k[3]))]]

SourceDetermineDownloadTimestamps(coll, skelTree) ==
    [k \in {x \in DOMAIN coll : isfile(skelTree, x[2])} |->
        [coll[k] EXCEPT !.Download = getmtime(skelTree, SanitiseUri(k[2]))]]

\* addFile deciding on the timestamps alone: what _GetFiles would do if it
\* forgot the interrupted and force-update flags.
AddFile_TimestampsOnly(ts, modified, set) ==
    IF modified THEN TimestampModified(ts) ELSE ~TimestampModified(ts)

\* addFile with the flags counted for the modified files only.
AddFile_FlagsForModifiedOnly(ts, modified, set) ==
    IF modified
    THEN TimestampModified(ts) \/ set.PreviousRunInterrupted \/ set.ForceUpdate
    ELSE ~TimestampModified(ts)

\* addFile of _GetFiles
AddFile(ts, modified, set) ==
    IF modified
    THEN TimestampModified(ts) \/ set.PreviousRunInterrupted \/ set.ForceUpdate
    ELSE ~TimestampModified(ts) \/ set.PreviousRunInterrupted \/ set.ForceUpdate

PackageGetFiles(coll, modified, set) ==
    {splitext(k[3]) : k \in {x \in DOMAIN coll : AddFile(coll[x], modified, set)}}

SourceGetFiles(coll, modified, set) ==
    {splitext(k[2]) : k \in {x \in DOMAIN coll : AddFile(coll[x], modified, set)}}

(***************************************************************************)
(* classes.Repository                                                      *)
(***************************************************************************)

\* A repository as Repository.__init__ builds it from a configuration line.
Repository(type, archs, uri, dist, comps) ==
    [repositoryType |-> type, architectures |-> archs, uri |-> uri,
     distribution |-> dist, components |-> comps, clean |-> TRUE,
     packageCollection |-> EmptyCollection, sourceCollection |-> EmptyCollection]

BaseUrl(repo) ==
    repo.uri \o <<"/">> \o
    (IF repo.components # <<>>
     THEN <<"dists", "/">> \o repo.distribution \o <<"/">>
     ELSE <<>>)

GetReleaseFiles(repo) ==
    << BaseUrl(repo) \o <<"InRelease">>,
       BaseUrl(repo) \o <<"Release">>,
       BaseUrl(repo) \o <<"Release", ".", "gpg">> >>

\* The manifest _ParseReleaseFiles opens: InRelease, else Release.
ReleaseFileToRead(repo, rootTree) ==
    LET inRelease == SanitiseUri(BaseUrl(repo)) \o <<"/", "InRelease">>
        release   == SanitiseUri(BaseUrl(repo)) \o <<"/", "Release">>
    IN  IF isfile(rootTree, inRelease) THEN inRelease ELSE release

IsChecksumHeader(line) ==
    \/ Contains(line, <<"SHA256", ":">>)
    \/ Contains(line, <<"SHA1", ":">>)
    \/ Contains(line, <<"MD5Sum", ":">>)

Unset == <<"?">>

\* The scan of the manifest's lines: the data lines read inside a checksum
\* section, each with the checksum type in force.  malformed counts the
\* lines reported and skipped.
RECURSIVE ScanRelease(_, _, _, _)
ScanRelease(lines, checksums, checksumType, acc) ==
    IF lines = <<>> THEN acc
    ELSE
      LET line   == Head(lines)
          header == IsChecksumHeader(line) /\ ~Contains(line, <<"Hash", ":">>)
          type   == IF header
                    THEN Strip(SelectSeq(line, LAMBDA t : t # ":"))
                    ELSE checksumType
          inside == IF header THEN FALSE ELSE checksums
          parts  == NonEmpty(SplitOn(line, " "))
      IN  IF inside
          THEN IF Head(line) = " "
               THEN IF Len(parts) # 3
                    THEN ScanRelease(Tail(lines), TRUE, type,
                                     [acc EXCEPT !.malformed = @ + 1])
                    ELSE ScanRelease(Tail(lines), TRUE, type,
                            [acc EXCEPT !.entries = @ \cup
                                {[checksumType |-> type,
                                  checksum |-> Strip(parts[1]),
                                  filename |-> RStrip(parts[3])]}])
               ELSE ScanRelease(Tail(lines), FALSE, type, acc)
          ELSE ScanRelease(Tail(lines), IsChecksumHeader(line), type, acc)

\* match(rf"...[^./]*(\.gz|\.bz2|\.xz|$)$", filename) for what follows the
\* literal part of the pattern.
IndexSuffix(rest) ==
    LET n == RunLenNot(rest, {".", "/"})
        t == Drop(rest, n)
    IN  t = <<>> \/ t \in {<<".", "gz">>, <<".", "bz2">>, <<".", "xz">>}

\* The URLs and the collection keys one data line gives for one
\* architecture and one component of a binary repository.
PlanBinComponent(repo, e, arch, comp, set) ==
    LET base   == BaseUrl(repo)
        f      == e.filename
        url    == base \o f
        hash(d) == base \o <<comp, "/">> \o d
                   \o <<"/", "by-hash", "/">> \o e.checksumType \o <<"/">> \o e.checksum
        with(c, extra) == IF c THEN {url} \cup (IF set.ByHash THEN {extra} ELSE {})
                          ELSE {}
        bin    == <<comp, "/", "binary-", arch, "/">>
        isPkg  == IsPrefix(bin \o <<"Packages">>, f)
        dep11  == <<comp, "/", "dep11", "/">>
        icons  == IF IsPrefix(dep11 \o <<"icons-">>, f)
                  THEN LET r == Drop(f, Len(dep11) + 1)
                           n == RunLenNot(r, {".", "/"})
                       IN  n >= 1 /\ IsPrefix(<<".", "tar">>, Drop(r, n))
                  ELSE FALSE
    IN  [urls |->
            (IF set.Contents /\ Contains(f, <<comp, "/", "Contents-", arch>>)
             THEN {url} ELSE {})
            \cup with(IsPrefix(bin \o <<"Release">>, f), hash(<<"binary-", arch>>))
            \cup with(isPkg, hash(<<"binary-", arch>>))
            \cup with(IsPrefix(<<comp, "/", "cnf", "/", "Commands-", arch>>, f),
                      hash(<<"cnf">>))
            \cup with(IsPrefix(<<comp, "/", "i18n", "/", "cnf", "/", "Commands-", arch>>, f),
                      hash(<<"i18n">>))
            \cup with(IsPrefix(<<comp, "/", "i18n", "/", "Index">>, f), hash(<<"i18n">>))
            \cup with(\E i \in 1..Len(set.Language) :
                        IsPrefix(<<comp, "/", "i18n", "/", "Translation-", set.Language[i]>>, f),
                      hash(<<"i18n">>))
            \cup with(IsPrefix(dep11 \o <<"Components-", arch, ".", "yml">>, f) \/ icons,
                      hash(<<"dep11">>)),
         adds |->
            IF isPkg /\ IndexSuffix(Drop(f, Len(bin) + 1))
            THEN {<<comp, arch, url>>} ELSE {}]

\* The same for one data line and one architecture.
\* The URLs and the keys of several plans together.
Plans(plans) ==
    [urls |-> UNION {p.urls : p \in plans}, adds |-> UNION {p.adds : p \in plans}]

PlanBin(repo, e, arch, set) ==
    LET url == BaseUrl(repo) \o e.filename
    IN  Plans({[urls |-> IF set.Contents /\ IsPrefix(<<"Contents-", arch>>, e.filename)
                        THEN {url} ELSE {},
                adds |-> {}]}
              \cup (IF repo.components # <<>>
                    THEN {PlanBinComponent(repo, e, arch, c, set) :
                             c \in Range(repo.components)}
                    ELSE {[urls |-> {url}, adds |-> {<<"Flat", arch, url>>}]}))

\* The same for one data line and one component of a source repository.
PlanSrc(repo, e, comp) ==
    LET url == BaseUrl(repo) \o e.filename
        src == <<comp, "/", "source", "/">>
        isSources == IsPrefix(src \o <<"Sources">>, e.filename)
                     /\ IndexSuffix(Drop(e.filename, Len(src) + 1))
    IN  [urls |-> (IF IsPrefix(src \o <<"Release">>, e.filename) THEN {url} ELSE {})
                  \cup (IF isSources THEN {url} ELSE {}),
         adds |-> IF isSources THEN {<<comp, url>>} ELSE {}]

RECURSIVE PackageAddAll(_, _)
PackageAddAll(coll, adds) ==
    IF adds = {} THEN coll
    ELSE LET a == CHOOSE x \in adds : TRUE
         IN  PackageAddAll(PackageAdd(coll, a[1], a[2], a[3]), adds \ {a})

RECURSIVE SourceAddAll(_, _)
SourceAddAll(coll, adds) ==
    IF adds = {} THEN coll
    ELSE LET a == CHOOSE x \in adds : TRUE
         IN  SourceAddAll(SourceAdd(coll, a[1], a[2]), adds \ {a})

\* The manifest at path, scanned.
ReadRelease(rootTree, path) ==
    IF isfile(rootTree, path)
    THEN [found |-> TRUE,
          scan |-> ScanRelease(rootTree[normpath(path)].data.lines, FALSE, Unset,
                               [entries |-> {}, malformed |-> 0])]
    ELSE [found |-> FALSE, scan |-> [entries |-> {}, malformed |-> 0]]

\* What the data lines give for every architecture (binary) or component
\* (source) of the repository.
PlanAll(repo, entries, set) ==
    IF repo.repositoryType = "Bin"
    THEN Plans({PlanBin(repo, e, a, set) :
                   e \in entries, a \in Range(repo.architectures)})
    ELSE Plans({PlanSrc(repo, e, c) : e \in entries, c \in Range(repo.components)})

\* The result of _ParseReleaseFiles from the manifest read and the plan.
Planned(repo, read, plan, skelTree) ==
    [error |-> \/ ~read.found
               \/ /\ repo.repositoryType = "Bin"
                  /\ repo.architectures # <<>>
                  /\ repo.components # <<>>
                  /\ \E e \in read.scan.entries : e.checksumType = Unset,
     indexFiles |-> plan.urls,
     malformed |-> read.scan.malformed,
     repo |->
        IF repo.repositoryType = "Bin"
        THEN [repo EXCEPT !.packageCollection =
                PackageDetermineCurrentTimestamps(PackageAddAll(@, plan.adds), skelTree)]
        ELSE [repo EXCEPT !.sourceCollection =
                SourceDetermineCurrentTimestamps(SourceAddAll(@, plan.adds), skelTree)]]

ParseRelease(repo, read, skelTree, set) ==
    Planned(repo, read, PlanAll(repo, read.scan.entries, set), skelTree)

\* Repository._ParseReleaseFiles against the tree rootTree (skel/ or
\* mirror/): error (open or the unbound checksumType raised), the URL set
\* returned, the lines reported malformed, and the repository with its
\* collection filled and the current timestamps taken from skel/.
ParseReleaseFiles(repo, rootTree, skelTree, set) ==
    ParseRelease(repo, ReadRelease(rootTree, ReleaseFileToRead(repo, rootTree)),
                 skelTree, set)

\* Repository._GetIndexFiles
GetIndexFiles(repo, modified, set) ==
    IF repo.repositoryType = "Bin"
    THEN PackageGetFiles(repo.packageCollection, modified, set)
    ELSE SourceGetFiles(repo.sourceCollection, modified, set)

\* A Modified that holds of every repository.
RepoModified_Always(repo, set) == TRUE

\* Repository.Modified
RepoModified(repo, set) == GetIndexFiles(repo, TRUE, set) # {}

\* A Timestamp that records the download times and removes no entry.
RepoTimestamp_KeepingMissing(repo, skelTree) ==
    LET stamp(coll, at) ==
            [k \in DOMAIN coll |->
                IF isfile(skelTree, k[at])
                THEN [coll[k] EXCEPT !.Download = getmtime(skelTree, k[at])]
                ELSE coll[k]]
    IN  IF repo.repositoryType = "Bin"
        THEN [repo EXCEPT !.packageCollection = stamp(@, 3)]
        ELSE [repo EXCEPT !.sourceCollection = stamp(@, 2)]

\* Repository.Timestamp
RepoTimestamp(repo, skelTree) ==
    IF repo.repositoryType = "Bin"
    THEN [repo EXCEPT !.packageCollection =
            PackageDetermineDownloadTimestamps(@, skelTree)]
    ELSE [repo EXCEPT !.sourceCollection =
            SourceDetermineDownloadTimestamps(@, skelTree)]

\* Repository.Exists: the parent of skel/<sanitised uri> is a directory.
RepoExists(repo, skelTree) == isdir(skelTree, Parent(SanitiseUri(repo.uri)))

\* A _NeedUpdate that asks for every file, whatever is on disk.
NeedUpdate_Always(mirrorTree, path, size, set) == TRUE

\* A _NeedUpdate that compares sizes whatever the force-update flag says.
NeedUpdate_IgnoringForce(mirrorTree, path, size, set) ==
    IF isfile(mirrorTree, path) THEN getsize(mirrorTree, path) # size ELSE TRUE

\* Repository._NeedUpdate
NeedUpdate(mirrorTree, path, size, set) ==
    IF set.ForceUpdate THEN TRUE
    ELSE IF isfile(mirrorTree, path) THEN getsize(mirrorTree, path) # size
    ELSE TRUE

(***************************************************************************)
(* classes.Index and Repository._ProcessIndex                              *)
(***************************************************************************)

keywords ==
    {<<"Filename">>, <<"MD5sum">>, <<"SHA1">>, <<"SHA256">>, <<"Size">>,
     <<"Files">>, <<"Directory">>}

NoKey == <<"?">>

\* search(r"^(\w+:)", line): a key with a dash in it is no key.
KeyMatch_WordOnly(line) ==
    LET n == RunLen(line, WordTokens)
    IN  n >= 1 /\ Len(line) > n /\ line[n + 1] = ":"

\* search(r"^([\w\-]+:)", line)
KeyMatch(line) ==
    LET n == RunLen(line, WordDashTokens)
    IN  n >= 1 /\ Len(line) > n /\ line[n + 1] = ":"

\* The loop of Index.GetPackages over the (right-stripped) lines.  A
\* paragraph is a function from its retained keys to their values; error
\* is set where the code raises (a continuation for a key the paragraph
\* does not hold, a retained key without a colon).
RECURSIVE GetPackagesLoop(_, _)
GetPackagesLoop(lines, st) ==
    IF lines = <<>> \/ st.error THEN st
    ELSE
      LET line == Head(lines)
          rest == Tail(lines)
          pieces == SplitOn(line, ":")
          k    == pieces[1]
      IN  IF line = <<>>
          THEN GetPackagesLoop(rest,
                  [st EXCEPT !.packages = Append(@, st.package),
                             !.package = [x \in {} |-> <<>>]])
          ELSE IF ~KeyMatch(line) /\ st.key # NoKey
          THEN IF st.key \in DOMAIN st.package
               THEN GetPackagesLoop(rest,
                      [st EXCEPT !.package =
                          [@ EXCEPT ![st.key] = @ \o <<"\n">> \o Strip(line)]])
               ELSE [st EXCEPT !.error = TRUE]
          ELSE IF k \in keywords
          THEN IF Len(pieces) < 2
               THEN [st EXCEPT !.error = TRUE]
               ELSE GetPackagesLoop(rest,
                      [st EXCEPT !.key = k,
                                 !.package =
                          [x \in DOMAIN st.package \cup {k} |->
                              IF x = k THEN Strip(pieces[2]) ELSE st.package[x]]])
          ELSE GetPackagesLoop(rest, [st EXCEPT !.key = NoKey])

\* Index.Read followed by Index.GetPackages on the lines of a file.
GetPackages(lines) ==
    GetPackagesLoop([i \in 1..Len(lines) |-> RStrip(lines[i])],
                    [packages |-> <<>>, package |-> [x \in {} |-> <<>>],
                     key |-> NoKey, error |-> FALSE])

IsNumber(s) == Len(s) = 1 /\ s[1] \in DigitTokens

\* filename[2:] if filename.startswith("./")
StripDotSlash(f) == IF IsPrefix(<<".", "/">>, f) THEN Drop(f, 2) ELSE f

\* A Package
Package(filename, size, latest) ==
    [Filename |-> filename, Size |-> size, Latest |-> latest]

\* The Packages of one line of a Files field (a source paragraph).
SourcePackages(package, path, mirrorTree, skipUpdateCheck, set) ==
    LET files == NonEmpty(SplitOn(package[<<"Files">>], "\n"))
        bad(file) == LET sourceFile == SplitOn(file, " ")
                     IN  Len(sourceFile) < 3 \/ ~IsNumber(sourceFile[2])
        one(file) ==
            LET sourceFile == SplitOn(file, " ")
                size == ToInt(sourceFile[2])
                name == path \o <<"/">> \o package[<<"Directory">>] \o <<"/">>
                        \o StripDotSlash(sourceFile[3])
            IN  Package(normpath(name), size,
                        skipUpdateCheck \/ ~NeedUpdate(mirrorTree, normpath(name), size, set))
        error == files # <<>> /\
                 (<<"Directory">> \notin DOMAIN package
                  \/ \E i \in 1..Len(files) : bad(files[i]))
    IN  [error |-> error,
         packages |-> IF error THEN <<>> ELSE [i \in 1..Len(files) |-> one(files[i])]]

\* The Packages of one paragraph.
ParagraphPackages(package, path, mirrorTree, skipUpdateCheck, set) ==
    IF <<"Filename">> \in DOMAIN package
    THEN IF <<"Size">> \notin DOMAIN package \/ ~IsNumber(package[<<"Size">>])
         THEN [error |-> TRUE, packages |-> <<>>]
         ELSE LET name == normpath(path \o <<"/">> \o StripDotSlash(package[<<"Filename">>]))
                  size == ToInt(package[<<"Size">>])
              IN  [error |-> FALSE,
                   packages |-> <<Package(name, size,
                        skipUpdateCheck \/ ~NeedUpdate(mirrorTree, name, size, set))>>]
    ELSE IF <<"Files">> \in DOMAIN package
    THEN SourcePackages(package, path, mirrorTree, skipUpdateCheck, set)
    ELSE [error |-> FALSE, packages |-> <<>>]

\* indexPackages += ...: the list grows in order; an error anywhere is an
\* error of the whole.
Extended(h, t) == [error |-> h.error \/ t.error, packages |-> h.packages \o t.packages]

RECURSIVE ConcatPackages(_, _, _, _, _)
ConcatPackages(paragraphs, path, mirrorTree, skipUpdateCheck, set) ==
    IF paragraphs = <<>> THEN [error |-> FALSE, packages |-> <<>>]
    ELSE Extended(
            ParagraphPackages(Head(paragraphs), path, mirrorTree, skipUpdateCheck, set),
            ConcatPackages(Tail(paragraphs), path, mirrorTree, skipUpdateCheck, set))

\* Repository._ProcessIndex: the Packages of the index file `index` read
\* below indexRoot; error where the code raises (no such file, a file that
\* is not text, a paragraph the loop cannot read).
ProcessIndex(repo, indexRoot, mirrorTree, index, skipUpdateCheck, set) ==
    IF ~isfile(indexRoot, index) \/ indexRoot[normpath(index)].data.format # "plain"
    THEN [error |-> TRUE, packages |-> <<>>]
    ELSE LET read == GetPackages(indexRoot[normpath(index)].data.lines)
         IN  Extended([error |-> read.error, packages |-> <<>>],
                      ConcatPackages(read.packages, SanitiseUri(repo.uri), mirrorTree,
                                     skipUpdateCheck, set))

\* The Packages of a list of index files, in order.
RECURSIVE ProcessIndices(_, _, _, _, _, _)
ProcessIndices(repo, indexRoot, mirrorTree, indices, skipUpdateCheck, set) ==
    IF indices = <<>> THEN [error |-> FALSE, packages |-> <<>>]
    ELSE Extended(
            ProcessIndex(repo, indexRoot, mirrorTree, Head(indices), skipUpdateCheck, set),
            ProcessIndices(repo, indexRoot, mirrorTree, Tail(indices), skipUpdateCheck, set))

\* Repository.ParseIndexFiles: the modified indices, read below skel/.
ParseIndexFiles(repo, skelTree, mirrorTree, set) ==
    ProcessIndices(repo, skelTree, mirrorTree,
                   SetToSeq(GetIndexFiles(repo, TRUE, set)), FALSE, set)

\* Repository.ParseUnmodifiedIndexFiles: the file names of the up-to-date
\* Packages of the unmodified indices, read below skel/.
LatestFilenames(got) ==
    [error |-> got.error,
     files |-> {got.packages[i].Filename :
                    i \in {j \in 1..Len(got.packages) : got.packages[j].Latest}}]

ParseUnmodifiedIndexFiles(repo, skelTree, mirrorTree, set) ==
    LatestFilenames(ProcessIndices(repo, skelTree, mirrorTree,
                                   SetToSeq(GetIndexFiles(repo, FALSE, set)), TRUE, set))

\* Repository.ParseIndexFilesFromLocalMirror, after Settings.SetForceUpdate():
\* the indices, read below mirror/.
ParseIndexFilesFromLocalMirror(repo, mirrorTree, set) ==
    ProcessIndices(repo, mirrorTree, mirrorTree,
                   SetToSeq(GetIndexFiles(repo, TRUE, [set EXCEPT !.ForceUpdate = TRUE])),
                   TRUE, [set EXCEPT !.ForceUpdate = TRUE])

\* helpers.UnzipFile: file is written from the first of file.xz, file.gz,
\* file.bz2 that exists.  error where the decoder raises (the file is not of
\* the format its name says, or is cut short); unsupported where none exists
\* and the TypeError is returned.
\* The extension of the first of file.gz, file.xz, file.bz2 that exists.
Compressed_GzFirst(tree, file) ==
    IF isfile(tree, file \o <<".", "gz">>) THEN "gz"
    ELSE IF isfile(tree, file \o <<".", "xz">>) THEN "xz"
    ELSE IF isfile(tree, file \o <<".", "bz2">>) THEN "bz2"
    ELSE "none"

\* The extension of the first of file.xz, file.gz, file.bz2 that exists.
Compressed(tree, file) ==
    IF isfile(tree, file \o <<".", "xz">>) THEN "xz"
    ELSE IF isfile(tree, file \o <<".", "gz">>) THEN "gz"
    ELSE IF isfile(tree, file \o <<".", "bz2">>) THEN "bz2"
    ELSE "none"

\* The decoder of the format pick reads src and file is opened for writing.
Decoded(tree, file, now, pick, src) ==
    IF src.data.format # pick \/ ~src.whole
    THEN [tree |-> WriteFile(tree, file, File(0, now, NoData)),
          error |-> TRUE, unsupported |-> FALSE]
    ELSE [tree |-> WriteFile(tree, file,
                      File(Len(src.data.lines), now, Plain(src.data.lines))),
          error |-> FALSE, unsupported |-> FALSE]

UnzipPicked(tree, file, now, pick) ==
    IF pick = "none"
    THEN [tree |-> tree, error |-> FALSE, unsupported |-> TRUE]
    ELSE Decoded(tree, file, now, pick, tree[normpath(file \o <<".", pick>>)])

UnzipFile(tree, file, now) == UnzipPicked(tree, file, now, Compressed(tree, file))

(***************************************************************************)
(* The archives, their manifests and indices                               *)
(***************************************************************************)

UriA == <<"http", ":", "/", "/", "a", "/", "debian">>

UriB == <<"http", ":", "/", "/", "b", ":", "80", "/", "debian">>

Bookworm == <<"bookworm">>

PackagesName == <<"main", "/", "binary-", "amd64", "/", "Packages">>

SourcesName == <<"main", "/", "source", "/", "Sources">>

Line(checksum, size, name) == <<" ", checksum, " ", size, " ">> \o name \o <<"\n">>

\* The Release manifest of archive A: the uncompressed Packages is listed
\* (and not served), as Debian archives do.
ReleaseLines ==
    << <<"Origin", ":", " ", "debian", "\n">>,
       <<"SHA256", ":", "\n">>,
       Line("c1", "100", PackagesName),
       Line("c2", "50", PackagesName \o <<".", "xz">>),
       Line("c1", "100", SourcesName),
       Line("c1", "100", SourcesName \o <<".", "gz">>) >>

PackagesLines ==
    << <<"Package", ":", " ", "x_1", "\n">>,
       <<"Installed-Size", ":", " ", "100", "\n">>,
       <<"Filename", ":", " ", "pool", "/", "x_1", ".", "deb", "\n">>,
       <<"Size", ":", " ", "42", "\n">>,
       <<"\n">> >>

SourcesLines ==
    << <<"Package", ":", " ", "y_1", "\n">>,
       <<"Directory", ":", " ", "pool", "\n">>,
       <<"Files", ":", "\n">>,
       <<" ", "c1", " ", "50", " ", "y_1", ".", "dsc", "\n">>,
       <<"\n">> >>

DistsA == <<"a", "/", "debian", "/", "dists", "/", "bookworm", "/">>

PoolA == <<"a", "/", "debian", "/", "pool", "/">>

\* What the server of archive A serves, by sanitised path, with the
\* Last-Modified time t of its indices.
RemoteA(t) ==
    LET put(tree, p, f) == WriteFile(tree, p, f)
        t1 == put(EmptyTree, DistsA \o <<"Release">>, File(100, t, Plain(ReleaseLines)))
        t2 == put(t1, DistsA \o PackagesName \o <<".", "xz">>,
                  File(50, t, [format |-> "xz", lines |-> PackagesLines]))
        t3 == put(t2, DistsA \o SourcesName \o <<".", "gz">>,
                  File(100, t, [format |-> "gz", lines |-> SourcesLines]))
        t4 == put(t3, PoolA \o <<"x_1", ".", "deb">>, File(42, 1, NoData))
    IN  put(t4, PoolA \o <<"y_1", ".", "dsc">>, File(50, 1, NoData))

RepoBin == Repository("Bin", <<"amd64">>, UriA, Bookworm, <<"main">>)

RepoSrc == Repository("Src", <<"amd64">>, UriA, Bookworm, <<"main">>)

RepoGone == Repository("Bin", <<"amd64">>, UriB, Bookworm, <<"main">>)

\* Archive C lists its compressed Packages index only.
UriC == <<"http", ":", "/", "/", "c", "/", "debian">>

DistsC == <<"c", "/", "debian", "/", "dists", "/", "bookworm", "/">>

PoolC == <<"c", "/", "debian", "/", "pool", "/">>

ReleaseLinesC ==
    << <<"Origin", ":", " ", "debian", "\n">>,
       <<"SHA256", ":", "\n">>,
       Line("c2", "50", PackagesName \o <<".", "xz">>) >>

\* The tree with what the server of archive C serves added to it.
RemoteC(tree, t) ==
    WriteFile(
        WriteFile(
            WriteFile(tree, DistsC \o <<"Release">>, File(100, t, Plain(ReleaseLinesC))),
            DistsC \o PackagesName \o <<".", "xz">>,
            File(50, t, [format |-> "xz", lines |-> PackagesLines])),
        PoolC \o <<"x_1", ".", "deb">>, File(42, 1, NoData))

RepoC == Repository("Bin", <<"amd64">>, UriC, Bookworm, <<"main">>)

\* Archive D serves its Packages index uncompressed only, and its Sources
\* index as gz.
UriD == <<"http", ":", "/", "/", "d", "/", "debian">>

DistsD == <<"d", "/", "debian", "/", "dists", "/", "bookworm", "/">>

PoolD == <<"d", "/", "debian", "/", "pool", "/">>

ReleaseLinesD ==
    << <<"Origin", ":", " ", "debian", "\n">>,
       <<"SHA256", ":", "\n">>,
       Line("c1", "100", PackagesName),
       Line("c1", "100", SourcesName \o <<".", "gz">>) >>

\* The tree with what the server of archive D serves added to it.
RemoteD(tree, t) ==
    LET t1 == WriteFile(tree, DistsD \o <<"Release">>, File(100, t, Plain(ReleaseLinesD)))
        t2 == WriteFile(t1, DistsD \o PackagesName, File(100, t, Plain(PackagesLines)))
        t3 == WriteFile(t2, DistsD \o SourcesName \o <<".", "gz">>,
                        File(100, t, [format |-> "gz", lines |-> SourcesLines]))
        t4 == WriteFile(t3, PoolD \o <<"x_1", ".", "deb">>, File(42, 1, NoData))
    IN  WriteFile(t4, PoolD \o <<"y_1", ".", "dsc">>, File(50, 1, NoData))

RepoDBin == Repository("Bin", <<"amd64">>, UriD, Bookworm, <<"main">>)

RepoDSrc == Repository("Src", <<"amd64">>, UriD, Bookworm, <<"main">>)

\* Archive E serves a Packages index for each of two architectures; both
\* list pool/x_1.deb, as the indices of every architecture list a package
\* of architecture all.
UriE == <<"http", ":", "/", "/", "e", "/", "debian">>

DistsE == <<"e", "/", "debian", "/", "dists", "/", "bookworm", "/">>

PoolE == <<"e", "/", "debian", "/", "pool", "/">>

PackagesName386 == <<"main", "/", "binary-", "i386", "/", "Packages">>

ReleaseLinesE ==
    << <<"Origin", ":", " ", "debian", "\n">>,
       <<"SHA256", ":", "\n">>,
       Line("c2", "50", PackagesName \o <<".", "xz">>),
       Line("c2", "50", PackagesName386 \o <<".", "xz">>) >>

\* The tree with what the server of archive E serves added to it.
RemoteE(tree, t) ==
    LET t1 == WriteFile(tree, DistsE \o <<"Release">>, File(100, t, Plain(ReleaseLinesE)))
        t2 == WriteFile(t1, DistsE \o PackagesName \o <<".", "xz">>,
                        File(50, t, [format |-> "xz", lines |-> PackagesLines]))
        t3 == WriteFile(t2, DistsE \o PackagesName386 \o <<".", "xz">>,
                        File(50, t, [format |-> "xz", lines |-> PackagesLines]))
    IN  WriteFile(t3, PoolE \o <<"x_1", ".", "deb">>, File(42, 1, NoData))

RepoE == Repository("Bin", <<"amd64", "i386">>, UriE, Bookworm, <<"main">>)

\* A repository of the host of archive A that the server does not have.
UriGone == <<"http", ":", "/", "/", "a", "/", "ubuntu">>

RepoGoneA == Repository("Bin", <<"amd64">>, UriGone, Bookworm, <<"main">>)

(***************************************************************************)
(* Bounds                                                                  *)
(***************************************************************************)

\* The longest list of URLs handed to Downloader.Download on its own.
MaxUrls == 3

\* Settings.Threads(): the workers of a download pool.
Threads == 2

\* Invocations of the program on the same mirror root, one after another.
MaxRuns == 2

\* Invocations of the program running side by side on one mirror root.
Invocations == 2

\* A Last-Modified time of a server whose clock is ahead of the local one.
Ahead == 9

(***************************************************************************)
(* The state                                                               *)
(***************************************************************************)

VARIABLES
    pc,               \* where the running invocation is
    run,              \* the number of the invocation
    args,             \* its command line: [test, clean]
    settings,         \* the Settings flags
    config,           \* the configuration file: [repos, noClean]
    repositories,     \* Refrapt.repositories
    filesToKeep,      \* Refrapt.filesToKeep
    releaseFiles,     \* PerformMirroring's releaseFiles
    indexFiles,       \* PerformMirroring's indexFiles
    filesToDownload,  \* PerformMirroring's filesToDownload
    cwd,              \* the working directory: "skel" or "mirror"
    skel, mirror, var,\* the three trees on disk
    remote,           \* what the archives serve
    clock,            \* the local time
    pool,             \* the download pool: [kind, urls, busy, next]
    hist,             \* what the properties need to remember of the past
    procs,            \* invocations side by side: each one's [pc, fd]
    lockFile          \* the file var/refrapt-lock.lock names: [inode, made]

vars == <<pc, run, args, settings, config, repositories, filesToKeep, releaseFiles,
          indexFiles, filesToDownload, cwd, skel, mirror, var, remote, clock,
          pool, hist, procs, lockFile>>

\* What no step of a single invocation changes.
fixed == <<config, procs, lockFile>>

NoProcs == <<>>

NoLockFile == [inode |-> 0, made |-> 0, unix |-> TRUE]

disk == <<skel, mirror, var>>

lists == <<filesToKeep, releaseFiles, indexFiles, filesToDownload>>

Workers == 1..Threads

NoUrl == <<"?">>

IdlePool == [kind |-> "none", urls |-> <<>>, busy |-> [w \in Workers |-> NoUrl],
             next |-> "none"]

appLockFile == <<"refrapt", "-", "lock">>

LockOf(name) == name \o <<".", "lock">>

\* f"{logPath}/Download-lock.{process._identity[0]}"
MarkerOf(w) == <<"Download", "-", "lock", ".", ToString(w)>>

\* f"{logPath}/{kind}-log.{process._identity[0]}"
LogOf(kind, w) == <<kind, "-", "log", ".", ToString(w)>>

\* Settings as the configuration file and the command line set them.
SettingsOf(test, cleanEnabled) ==
    [Test |-> test, CleanEnabled |-> cleanEnabled, ForceUpdate |-> FALSE,
     PreviousRunInterrupted |-> FALSE, ByHash |-> FALSE, Contents |-> FALSE,
     Language |-> <<"en">>]

\* Refrapt.GetRepositories: the deb lines, then "clean URI False" clears
\* the Clean flag of the first repository with that URI.
RECURSIVE ApplyNoClean(_, _)
ApplyNoClean(repos, noClean) ==
    IF noClean = <<>> THEN repos
    ELSE LET hits == {i \in 1..Len(repos) : repos[i].uri = Head(noClean)}
             first == CHOOSE i \in hits : \A j \in hits : i <= j
         IN  ApplyNoClean([repos EXCEPT ![first].clean = FALSE], Tail(noClean))

GetRepositories(conf) == ApplyNoClean(conf.repos, conf.noClean)

\* The configuration files considered.
Configs ==
    { [repos |-> <<RepoBin>>, noClean |-> <<>>],
      [repos |-> <<RepoSrc, RepoGone>>, noClean |-> <<>>] }

\* Configuration files with an archive of compressed indices only, with two
\* repositories of one URI, with a `clean URI False` line for them, with
\* a repository the host of archive A does not have, with an archive
\* whose Packages index has no compressed form, and with a repository of
\* two architectures.
VariantConfigs ==
    { [repos |-> <<RepoC>>, noClean |-> <<>>],
      [repos |-> <<RepoBin, RepoSrc>>, noClean |-> <<>>],
      [repos |-> <<RepoBin, RepoSrc>>, noClean |-> <<UriA>>],
      [repos |-> <<RepoBin, RepoGoneA>>, noClean |-> <<>>],
      [repos |-> <<RepoDBin, RepoDSrc>>, noClean |-> <<>>],
      [repos |-> <<RepoE>>, noClean |-> <<>>] }

\* Two files a user may have put below the mirror of archive A.
OrphanPath == PoolA \o <<"orphan", ".", "deb">>

LinkPath == PoolA \o <<"latest", ".", "deb">>

Link == [kind |-> "link", size |-> 0, mtime |-> 1, data |-> NoData, whole |-> TRUE]

(***************************************************************************)
(* Start of an invocation                                                  *)
(***************************************************************************)

\* How many times the tally b counted e, and b with e counted once more.
Times(b, e) == IF e \in DOMAIN b THEN b[e] ELSE 0

Tally(b, e) == [x \in DOMAIN b \cup {e} |-> Times(b, x) + IF x = e THEN 1 ELSE 0]

NoTally == [x \in {} |-> 0]

NoHist == [removed |-> {}, required |-> {}, cleans |-> 0, result |-> <<>>,
           logged |-> {}, cut |-> FALSE, failed |-> {}, intact |-> {},
           pending |-> {}, sentinel |-> FALSE, parsed |-> {}, missing |-> {},
           started |-> NoTally, finished |-> NoTally, files |-> {},
           prev |-> [done |-> FALSE, tested |-> FALSE, unchanged |-> FALSE,
                     present |-> FALSE, keep |-> {}, files |-> {}]]

\* What a process holds in memory when main() has read its configuration.
Fresh(a, conf) ==
    /\ args = a
    /\ settings = SettingsOf(a.test, TRUE)
    /\ repositories = GetRepositories(conf)
    /\ filesToKeep = <<>>
    /\ releaseFiles = <<>>
    /\ indexFiles = <<>>
    /\ filesToDownload = <<>>
    /\ cwd = "home"
    /\ pool = IdlePool

\* f.readline() on a file of var/
FirstLine(f) == IF f.data.lines = <<>> THEN <<>> ELSE f.data.lines[1]

\* The crash markers of var/: Download-lock.N, not the locks beside them.
Markers(varTree) ==
    {n \in DOMAIN varTree : /\ Contains(n, <<"Download", "-", "lock">>)
                            /\ ~Contains(n, <<".", "lock">>)}

\* The files of the mirror tree the crash markers of var/ point at.
MarkerTargets(varTree, mirrorTree) ==
    {normpath(SanitiseUri(FirstLine(varTree[n]))) : n \in Markers(varTree)}
    \cap {p \in DOMAIN mirrorTree : mirrorTree[p].kind # "dir"}

InitWith(configs, remotes) ==
    /\ pc = "start"
    /\ run = 1
    /\ config \in configs
    /\ \E a \in [test : BOOLEAN, clean : BOOLEAN] : Fresh(a, config)
    /\ skel = EmptyTree
    /\ mirror = WriteFile(WriteFile(EmptyTree, OrphanPath, File(1, 1, NoData)),
                          LinkPath, Link)
    /\ var = EmptyTree
    /\ remote \in remotes
    /\ clock = 2
    /\ hist = NoHist
    /\ procs = NoProcs
    /\ lockFile = NoLockFile

Init == InitWith(Configs, {RemoteA(1), RemoteA(Ahead)})

InitVariants ==
    InitWith(VariantConfigs, {RemoteE(RemoteD(RemoteC(RemoteA(1), 1), 1), 1)})

\* A Downloader.Init that removes every name holding "lock", the sentinel
\* included.
DownloaderInit_RemovingTheSentinel(varTree) ==
    RemoveFiles(varTree, {n \in DOMAIN varTree : Contains(n, <<"lock">>)})

\* Downloader.Init: every name of var/ holding ".lock" is removed.
DownloaderInit(varTree) ==
    RemoveFiles(varTree, {n \in DOMAIN varTree : Contains(n, <<".", "lock">>)})

\* A scan that reports the incomplete downloads and removes none.
CrashScan_RemovingNothing(varTree, mirrorTree) ==
    [mirror |-> mirrorTree, var |-> varTree]

\* The incomplete downloads the scan of var/ removes: for every name
\* holding "Download-lock", the file its first line names below mirror/,
\* else the one below var/.
CrashScan(varTree, mirrorTree) ==
    LET markers == {n \in DOMAIN varTree : Contains(n, <<"Download", "-", "lock">>)}
        uris    == {SanitiseUri(FirstLine(varTree[n])) : n \in markers}
        inMirror == {u \in uris : isfile(mirrorTree, u)}
        inVar    == {u \in uris \ inMirror : isfile(varTree, u)}
    IN  [mirror |-> RemoveFiles(mirrorTree, inMirror),
         var |-> RemoveFiles(varTree, inVar)]

\* main(), from the creation of the working directories to the emptying of
\* var/: Downloader.Init, the scan of var/ for crash markers and for the
\* sentinel, then the removal of everything in var/.
Preflight ==
    /\ pc = "start"
    /\ LET var1 == DownloaderInit(var)
           seen == \E n \in DOMAIN var1 : Contains(n, appLockFile)
       IN  /\ mirror' = CrashScan(var1, mirror).mirror
           /\ settings' = IF seen THEN [settings EXCEPT !.PreviousRunInterrupted = TRUE]
                          ELSE settings
           /\ var' = EmptyTree
    /\ cwd' = "skel"
    /\ pc' = "lock"
    /\ UNCHANGED <<run, args, fixed, repositories, lists, skel, remote, clock,
                   pool, hist>>

\* main(): the application lock is taken and the sentinel is written.
AcquireLock ==
    /\ pc = "lock"
    /\ var' = WriteFile(WriteFile(var, LockOf(appLockFile), File(0, clock, NoData)),
                        appLockFile, File(0, clock, NoData))
    /\ pc' = IF args.clean THEN "clean" ELSE "mirror"
    /\ UNCHANGED <<run, args, settings, fixed, repositories, lists, cwd, skel,
                   mirror, remote, clock, pool, hist>>

(***************************************************************************)
(* The download pool                                                       *)
(***************************************************************************)

\* Where wget --recursive puts a URL, below the working directory.
Target(url) == normpath(SanitiseUri(url))

\* The server has a file at the target q.
Served(q) == HasKind(remote, q, {"file"})

\* wget -N: the transfer to the target q happens when there is no local file,
\* when the sizes differ or when the local file is older.
Stale(tree, q) ==
    \/ ~isfile(tree, q)
    \/ getsize(tree, q) # remote[q].size
    \/ getmtime(tree, q) < remote[q].mtime

\* wget at the target q, where it transfers anything: the file while it is
\* being written, and the file when wget is done, with the content and the
\* time of the server's.
Wget(tree, q, done) ==
    IF Served(q) /\ Stale(tree, q)
    THEN WriteFile(tree, q, IF done THEN remote[q]
                            ELSE [File(0, clock, NoData) EXCEPT !.whole = FALSE])
    ELSE tree

BeginTransfer(tree, url) == Wget(tree, Target(url), FALSE)

EndTransfer(tree, url) == Wget(tree, Target(url), TRUE)

\* Downloader.Download: nothing is started for an empty list.
StartPool(kind, urls, next) ==
    IF urls = <<>>
    THEN pc' = next /\ pool' = IdlePool
    ELSE /\ pc' = "download"
         /\ pool' = [kind |-> kind, urls |-> urls,
                     busy |-> [w \in Workers |-> NoUrl], next |-> next]

\* DownloadUrlsProcess up to the call of wget: the lock of the marker, the
\* marker with the URL, and wget starts to write its log and the file.
WorkerStart(w) ==
    /\ pc = "download"
    /\ pool.busy[w] = NoUrl
    /\ pool.urls # <<>>
    /\ \E url \in {Head(pool.urls)} :
           /\ var' = WriteFile(
                         WriteFile(
                            WriteFile(var, LockOf(MarkerOf(w)), File(0, clock, NoData)),
                            MarkerOf(w), File(0, clock, Plain(<<url>>))),
                         LogOf(pool.kind, w), File(0, clock, NoData))
           /\ pool' = [pool EXCEPT !.urls = Tail(@), !.busy[w] = url]
           /\ IF cwd = "skel"
              THEN skel' = BeginTransfer(skel, url) /\ mirror' = mirror
              ELSE mirror' = BeginTransfer(mirror, url) /\ skel' = skel
           /\ hist' = [hist EXCEPT !.started = Tally(@, <<pool.kind, url>>)]
    /\ UNCHANGED <<pc, run, args, settings, fixed, repositories, lists, cwd,
                   remote, clock>>

\* A DownloadUrlsProcess that returns with its marker still in var/.
WorkerFinish_KeepingMarker(w) ==
    /\ pc = "download"
    /\ pool.busy[w] # NoUrl
    /\ LET url == pool.busy[w]
       IN  /\ pool' = [pool EXCEPT !.busy[w] = NoUrl]
           /\ IF cwd = "skel"
              THEN skel' = EndTransfer(skel, url) /\ mirror' = mirror
              ELSE mirror' = EndTransfer(mirror, url) /\ skel' = skel
           /\ hist' = [hist EXCEPT !.finished = Tally(@, <<pool.kind, url>>)]
    /\ UNCHANGED <<pc, run, args, settings, fixed, repositories, lists, cwd,
                   var, remote, clock>>

\* DownloadUrlsProcess from the return of wget: the marker is removed.
WorkerFinish(w) ==
    /\ pc = "download"
    /\ pool.busy[w] # NoUrl
    /\ LET url == pool.busy[w]
       IN  /\ var' = RemoveFile(var, MarkerOf(w))
           /\ pool' = [pool EXCEPT !.busy[w] = NoUrl]
           /\ IF cwd = "skel"
              THEN skel' = EndTransfer(skel, url) /\ mirror' = mirror
              ELSE mirror' = EndTransfer(mirror, url) /\ skel' = skel
           /\ hist' = [hist EXCEPT !.finished = Tally(@, <<pool.kind, url>>)]
    /\ UNCHANGED <<pc, run, args, settings, fixed, repositories, lists, cwd,
                   remote, clock>>

\* A Download that returns when the list is handed out, without waiting for
\* the transfers that are still running.
PoolDone_NotJoining ==
    /\ pc = "download"
    /\ pool.urls = <<>>
    /\ pc' = pool.next
    /\ pool' = IdlePool
    /\ UNCHANGED <<run, args, settings, fixed, repositories, lists, cwd, disk,
                   remote, clock, hist>>

\* The pool is joined when every URL has been handled.
PoolDone ==
    /\ pc = "download"
    /\ pool.urls = <<>>
    /\ \A w \in Workers : pool.busy[w] = NoUrl
    /\ pc' = pool.next
    /\ pool' = IdlePool
    /\ UNCHANGED <<run, args, settings, fixed, repositories, lists, cwd, disk,
                   remote, clock, hist>>

(***************************************************************************)
(* Refrapt.Clean and Refrapt.PostMirrorClean                               *)
(***************************************************************************)

RECURSIVE Flatten(_)
Flatten(ss) == IF ss = <<>> THEN <<>> ELSE Head(ss) \o Flatten(Tail(ss))

\* str.rstrip("/")
RStripSlash(s) ==
    IF s # <<>> /\ s[Len(s)] = "/" THEN Take(s, Len(s) - RunLen(
        [i \in 1..Len(s) |-> s[Len(s) + 1 - i]], {"/"})) ELSE s

\* The items of a Clean that forgot to leave symbolic links alone.
CleanItems_NoLinkFilter(repos, requiredFiles, mirrorTree) ==
    UNION { {normpath(x) : x \in {y \in walk(mirrorTree, SanitiseUri(uri)) :
                                    normpath(y) \notin requiredFiles}} :
            uri \in {r.uri : r \in repos} }

\* The items Clean compiles: below the root of every repository, the walked
\* paths that are not required and are not symbolic links.
CleanItems(repos, requiredFiles, mirrorTree) ==
    UNION { {normpath(x) : x \in {y \in walk(mirrorTree, SanitiseUri(uri)) :
                                    normpath(y) \notin requiredFiles
                                    /\ ~islink(mirrorTree, y)}} :
            uri \in {RStripSlash(r.uri) : r \in repos} }

\* A Clean that forgot to return in test mode.
Clean_IgnoringTest(repos, requiredFiles, mirrorTree, set) ==
    RemoveFiles(mirrorTree, {normpath(x) :
        x \in UNION {walk(mirrorTree, SanitiseUri(r.uri)) : r \in repos}}
        \ requiredFiles)

\* Refrapt.Clean: the mirror tree it leaves.
Clean(repos, requiredFiles, mirrorTree, set) ==
    LET items == CleanItems(repos, requiredFiles, mirrorTree)
    IN  IF items = {} THEN mirrorTree
        ELSE IF set.Test THEN mirrorTree
        ELSE RemoveFiles(mirrorTree, items)

\* The end of PostMirrorClean: the files of the unmodified indices read are
\* required beside files_to_keep, and Clean runs.
CleanWith(cleanRepositories, requiredFiles, mirrorTree, set) ==
    [error |-> FALSE, ran |-> TRUE, required |-> requiredFiles,
     mirror |-> Clean(cleanRepositories, requiredFiles, mirrorTree, set)]

CleanKeeping(cleanRepositories, keep, reads, mirrorTree, set) ==
    IF \E x \in reads : x.error
    THEN [error |-> TRUE, ran |-> FALSE, required |-> {}, mirror |-> mirrorTree]
    ELSE CleanWith(cleanRepositories, Range(keep) \cup UNION {x.files : x \in reads},
                   mirrorTree, set)

\* A PostMirrorClean that finds nothing to clean, whatever was modified.
PostMirrorClean_NothingToClean(repos, keep, skelTree, mirrorTree, set) ==
    [error |-> FALSE, ran |-> FALSE, required |-> {}, mirror |-> mirrorTree]

\* Refrapt.PostMirrorClean: error where an unmodified index cannot be
\* read, the required set handed to Clean and the mirror tree left.
PostMirrorClean(repos, keep, skelTree, mirrorTree, set) ==
    LET all   == {repos[i] : i \in 1..Len(repos)}
        cleanRepositories == {r \in all : r.clean /\ RepoModified(r, set)}
        allUriRepositories ==
            {x \in all : \E c \in cleanRepositories : Contains(c.uri, x.uri)}
    IN  IF cleanRepositories = {}
        THEN [error |-> FALSE, ran |-> FALSE, required |-> {}, mirror |-> mirrorTree]
        ELSE CleanKeeping(cleanRepositories, keep,
                          {ParseUnmodifiedIndexFiles(r, skelTree, mirrorTree, set) :
                              r \in allUriRepositories},
                          mirrorTree, set)

\* What a pass of Clean did to the mirror tree, for the properties.
Cleaned(before, after, requiredFiles) ==
    [hist EXCEPT !.removed = {[path |-> p, kind |-> before[p].kind] :
                                 p \in DOMAIN before \ DOMAIN after},
                 !.required = requiredFiles,
                 !.cleans = 1]

(***************************************************************************)
(* Refrapt.PerformMirroring                                                *)
(***************************************************************************)

KeepOf(urls) == [i \in 1..Len(urls) |-> normpath(SanitiseUri(urls[i]))]

\* Step 1: the Release files of every repository are handed to the pool.
StartRelease ==
    /\ pc = "mirror"
    /\ LET urls == Flatten([i \in 1..Len(repositories) |->
                               GetReleaseFiles(repositories[i])])
       IN  /\ releaseFiles' = urls
           /\ filesToKeep' = filesToKeep \o KeepOf(urls)
           /\ StartPool("Release", urls, "discover")
    /\ UNCHANGED <<run, args, settings, fixed, repositories, indexFiles,
                   filesToDownload, cwd, disk, remote, clock, hist>>

\* Steps 1a and 2: the repositories that left nothing on disk are dropped,
\* the Release files are parsed and the Index files are handed to the pool.
DiscoverIndices ==
    /\ pc = "discover"
    /\ \E present \in {SelectSeq(repositories, LAMBDA r : RepoExists(r, skel))} :
       \E parsed \in {[i \in 1..Len(present) |->
                          ParseReleaseFiles(present[i], skel, skel, settings)]} :
       \E urls \in {Flatten([i \in 1..Len(present) |->
                                SetToSeq(parsed[i].indexFiles)])} :
           IF \E i \in 1..Len(present) : parsed[i].error
           THEN /\ pc' = "error"
                /\ repositories' = present
                /\ UNCHANGED <<indexFiles, filesToKeep, pool>>
           ELSE /\ repositories' = [i \in 1..Len(present) |-> parsed[i].repo]
                /\ indexFiles' = urls
                /\ filesToKeep' = filesToKeep \o KeepOf(urls)
                /\ StartPool("Index", urls, "timestamp")
    /\ UNCHANGED <<run, args, settings, fixed, releaseFiles, filesToDownload,
                   cwd, disk, remote, clock, hist>>

\* repository.Timestamp() for every repository.
Timestamping ==
    /\ pc = "timestamp"
    /\ repositories' = [i \in 1..Len(repositories) |->
                           RepoTimestamp(repositories[i], skel)]
    /\ pc' = "decompress"
    /\ UNCHANGED <<run, args, settings, fixed, lists, cwd, disk, remote, clock,
                   pool, hist>>

\* UnzipFile on each file of a list, in order.
\* `except TypeError as t_err: self.logger.error(t_err)`: a TypeError that a
\* call raises is logged and the step goes on; any other exception leaves
\* the program.  What a call returns is dropped by the loop (`pass`).
Unzipped(st, h, file) ==
    [tree |-> h.tree,
     error |-> st.error \/ (h.error /\ ~h.unsupported),
     logged |-> st.logged \cup (IF h.error /\ h.unsupported THEN {file} ELSE {})]

RECURSIVE UnzipLoop(_, _, _)
UnzipLoop(st, files, now) ==
    IF files = <<>> THEN st
    ELSE UnzipLoop(Unzipped(st, UnzipFile(st.tree, Head(files), now), Head(files)),
                   Tail(files), now)

UnzipAll(tree, files, now) ==
    UnzipLoop([tree |-> tree, error |-> FALSE, logged |-> {}], files, now)

\* Step 3: repository.DecompressIndexFiles() for every repository.
Decompress ==
    /\ pc = "decompress"
    /\ \E done \in {UnzipAll(skel,
                              Flatten([i \in 1..Len(repositories) |->
                                  SetToSeq(GetIndexFiles(repositories[i], TRUE, settings))]),
                              clock)} :
           /\ skel' = done.tree
           /\ pc' = IF done.error THEN "error" ELSE "parse"
           /\ hist' = [hist EXCEPT !.logged = done.logged]
    /\ UNCHANGED <<run, args, settings, fixed, repositories, lists, cwd, mirror,
                   var, remote, clock, pool>>

\* Steps 4 and 5: the modified repositories are parsed, files_to_keep is
\* completed and the files that are not up to date are handed to the pool.
ParseIndices ==
    /\ pc = "parse"
    /\ \E mods \in {SelectSeq(repositories, LAMBDA r : RepoModified(r, settings))} :
       \E got \in {[i \in 1..Len(mods) |->
                       ParseIndexFiles(mods[i], skel, mirror, settings)]} :
       \E files \in {Flatten([i \in 1..Len(mods) |-> got[i].packages])} :
       \E stale \in {SelectSeq(files, LAMBDA x : ~x.Latest)} :
           IF \E i \in 1..Len(mods) : got[i].error
           THEN /\ pc' = "error"
                /\ UNCHANGED <<filesToDownload, filesToKeep, cwd, pool, hist>>
           ELSE /\ filesToDownload' = files
                /\ filesToKeep' = SetToSeq(Range(filesToKeep))
                                  \o [i \in 1..Len(files) |-> files[i].Filename]
                /\ cwd' = "mirror"
                /\ hist' = [hist EXCEPT
                              !.parsed = UNION {GetIndexFiles(mods[i], TRUE, settings) :
                                                   i \in 1..Len(mods)},
                              !.files = {[Filename |-> files[i].Filename,
                                          Size |-> files[i].Size] : i \in 1..Len(files)}]
                /\ IF ~settings.Test
                   THEN StartPool("Archive",
                                  [i \in 1..Len(stale) |-> stale[i].Filename],
                                  "publish")
                   ELSE pc' = "publish" /\ pool' = IdlePool
    /\ UNCHANGED <<run, args, settings, fixed, repositories, releaseFiles,
                   indexFiles, disk, remote, clock>>

\* os.makedirs and copyfile for the normalised paths todo: copyfile copies
\* the content; the copy takes the time of the copy.
CopyFiles(todo, skelTree, mirrorTree, now) ==
    [x \in DOMAIN mirrorTree \cup todo \cup UNION {Ancestors(p) : p \in todo} |->
        IF x \in todo THEN [skelTree[x] EXCEPT !.mtime = now]
        ELSE IF x \in DOMAIN mirrorTree THEN mirrorTree[x] ELSE Dir]

\* A copy loop that copies only what the mirror does not have yet.
CopySkelToMirror_OnlyMissing(keep, skelTree, mirrorTree, now) ==
    CopyFiles({normpath(SanitiseUri(keep[i])) : i \in 1..Len(keep)}
              \cap {p \in DOMAIN skelTree \ DOMAIN mirrorTree : skelTree[p].kind # "dir"},
              skelTree, mirrorTree, now)

\* The loop of step 6: every path of files_to_keep that is a file in skel/
\* is copied to mirror/ when the mirror has no such file or an older one.
CopySkelToMirror(keep, skelTree, mirrorTree, now) ==
    CopyFiles({normpath(p) : p \in {q \in {SanitiseUri(keep[i]) : i \in 1..Len(keep)} :
                    /\ isfile(skelTree, q)
                    /\ \/ ~isfile(mirrorTree, q)
                       \/ getmtime(skelTree, q) > getmtime(mirrorTree, q)}},
              skelTree, mirrorTree, now)

\* A step 6 that copies in test mode too.
Publish_InTestModeToo ==
    /\ pc = "publish"
    /\ mirror' = CopySkelToMirror(filesToKeep, skel, mirror, clock)
    /\ pc' = "gc"
    /\ UNCHANGED <<run, args, settings, fixed, repositories, lists, cwd, skel,
                   var, remote, clock, pool, hist>>

\* Step 6: Copy Skel to Main Archive.
Publish ==
    /\ pc = "publish"
    /\ mirror' = IF ~settings.Test
                 THEN CopySkelToMirror(filesToKeep, skel, mirror, clock)
                 ELSE mirror
    /\ pc' = "gc"
    /\ UNCHANGED <<run, args, settings, fixed, repositories, lists, cwd, skel,
                   var, remote, clock, pool, hist>>

\* Step 7: Remove any unused files.
PostMirrorCleanStep ==
    /\ pc = "gc"
    /\ IF settings.CleanEnabled
       THEN \E done \in {PostMirrorClean(repositories, filesToKeep, skel, mirror,
                                          settings)} :
                /\ mirror' = done.mirror
                /\ pc' = IF done.error THEN "error" ELSE "tail"
                /\ hist' = IF done.ran
                           THEN Cleaned(mirror, done.mirror, done.required)
                           ELSE hist
       ELSE /\ pc' = "tail"
            /\ UNCHANGED <<mirror, hist>>
    /\ UNCHANGED <<run, args, settings, fixed, repositories, lists, cwd, skel,
                   var, remote, clock, pool>>

\* An end of PerformMirroring that leaves skel/ as it is in test mode too.
TestTail_KeepingSkel ==
    /\ pc = "tail"
    /\ pc' = "finish"
    /\ cwd' = IF settings.Test THEN "skel" ELSE cwd
    /\ UNCHANGED <<run, args, settings, fixed, repositories, lists, skel, mirror,
                   var, remote, clock, pool, hist>>

\* The end of PerformMirroring: in test mode the Release and Index files
\* are removed from skel/.
TestTail ==
    /\ pc = "tail"
    /\ IF settings.Test
       THEN /\ cwd' = "skel"
            /\ skel' = RemoveFiles(skel,
                          {u \in {SanitiseUri(f) : f \in Range(releaseFiles \o indexFiles)} :
                              isfile(skel, u)})
       ELSE UNCHANGED <<cwd, skel>>
    /\ pc' = "finish"
    /\ UNCHANGED <<run, args, settings, fixed, repositories, lists, mirror, var,
                   remote, clock, pool, hist>>

(***************************************************************************)
(* Refrapt.PerformClean                                                    *)
(***************************************************************************)

PerformClean ==
    /\ pc = "clean"
    /\ \E cleanRepositories \in
              {SelectSeq(repositories, LAMBDA r :
                  isdir(mirror, SanitiseUri(r.uri) \o <<"/", "dists", "/">>
                                \o r.distribution))} :
       \E n \in {Len(cleanRepositories)} :
       \E rels \in {Flatten([i \in 1..n |-> GetReleaseFiles(cleanRepositories[i])])} :
       \E parsed \in {[i \in 1..n |->
                          ParseReleaseFiles(cleanRepositories[i], mirror, skel, settings)]} :
       \E idx \in {Flatten([i \in 1..n |-> SetToSeq(parsed[i].indexFiles)])} :
       \E keep \in {filesToKeep \o KeepOf(rels) \o KeepOf(idx)} :
       \E forced \in {IF n > 0 THEN [settings EXCEPT !.ForceUpdate = TRUE]
                       ELSE settings} :
       \E read \in {[i \in 1..n |->
                        ParseIndexFilesFromLocalMirror(parsed[i].repo, mirror, settings)]} :
       \E fileList \in {Flatten([i \in 1..n |-> read[i].packages])} :
       \E requiredFiles \in {Range(keep) \cup
                               {fileList[i].Filename : i \in 1..Len(fileList)}} :
       \E after \in {Clean(Range(cleanRepositories), requiredFiles, mirror, forced)} :
           IF \E i \in 1..n : parsed[i].error
           THEN /\ pc' = "error"
                /\ filesToKeep' = filesToKeep \o KeepOf(rels)
                /\ UNCHANGED <<settings, repositories, cwd, mirror, hist>>
           ELSE IF \E i \in 1..n : read[i].error
           THEN /\ pc' = "error"
                /\ filesToKeep' = keep
                /\ settings' = forced
                /\ UNCHANGED <<repositories, cwd, mirror, hist>>
           ELSE /\ pc' = "finish"
                /\ filesToKeep' = keep
                /\ settings' = forced
                /\ repositories' = repositories
                /\ cwd' = "mirror"
                /\ mirror' = after
                /\ hist' = Cleaned(mirror, after, requiredFiles)
    /\ UNCHANGED <<run, args, fixed, releaseFiles, indexFiles, filesToDownload,
                   skel, var, remote, clock, pool>>

(***************************************************************************)
(* End of an invocation, and the next one                                  *)
(***************************************************************************)

\* An end of main() that removes the sentinel and leaves the lock file.
Finish_LeavingTheLock ==
    /\ pc = "finish"
    /\ var' = RemoveFile(var, appLockFile)
    /\ pc' = "done"
    /\ UNCHANGED <<run, args, settings, fixed, repositories, lists, cwd, skel,
                   mirror, remote, clock, pool, hist>>

\* main(): the sentinel and the lock file are removed.
Finish ==
    /\ pc = "finish"
    /\ var' = RemoveFile(RemoveFile(var, appLockFile), LockOf(appLockFile))
    /\ pc' = "done"
    /\ UNCHANGED <<run, args, settings, fixed, repositories, lists, cwd, skel,
                   mirror, remote, clock, pool, hist>>

Running == {"lock", "mirror", "clean", "download", "discover", "timestamp", "decompress",
            "parse", "publish", "gc", "tail", "finish"}

\* The process is killed (or the machine loses power): the disk stays as
\* it is.
Kill ==
    /\ pc \in Running
    /\ run < MaxRuns
    /\ pc' = "killed"
    /\ pool' = IdlePool
    /\ repositories' = <<>>
    /\ filesToKeep' = <<>>
    /\ releaseFiles' = <<>>
    /\ indexFiles' = <<>>
    /\ filesToDownload' = <<>>
    /\ hist' = NoHist
    /\ UNCHANGED <<run, args, settings, fixed, cwd, disk, remote, clock>>

\* The archive publishes its indices anew: the same content, a later
\* Last-Modified time.
Republished(tree) ==
    [p \in DOMAIN tree |->
        IF tree[p].kind = "file" /\ Contains(p, <<"/", "dists", "/">>)
        THEN [tree[p] EXCEPT !.mtime = @ + 1]
        ELSE tree[p]]

\* Every file of the set is in the mirror tree with its declared size.
Present(files, mirrorTree) ==
    \A x \in files : /\ isfile(mirrorTree, x.Filename)
                     /\ getsize(mirrorTree, x.Filename) = x.Size

\* The program is started again on the same mirror root: main() begins with
\* fresh in-memory state over the disk and the archive as they are then.
StartOverWith(from, remotes, mirrors, remember, most, cut) ==
    /\ pc \in from
    /\ run < most
    /\ run' = run + 1
    /\ pc' = "start"
    /\ \E a \in [test : BOOLEAN, clean : BOOLEAN] :
          /\ args' = a
          /\ settings' = SettingsOf(a.test, TRUE)
    /\ repositories' = GetRepositories(config)
    /\ filesToKeep' = <<>>
    /\ releaseFiles' = <<>>
    /\ indexFiles' = <<>>
    /\ filesToDownload' = <<>>
    /\ cwd' = "home"
    /\ pool' = IdlePool
    /\ clock' = clock + 1
    /\ remote' \in remotes
    /\ mirror' \in mirrors
    /\ hist' = [NoHist EXCEPT
                  !.pending = MarkerTargets(var, mirror),
                  !.sentinel = appLockFile \in DOMAIN var,
                  !.cut = cut,
                  !.intact = {p \in MarkerTargets(var, mirror) :
                                 /\ mirror[p].whole
                                 /\ HasKind(skel, p, {"file"})
                                 /\ ~skel[p].whole},
                  !.prev = IF remember /\ ~args.clean /\ settings.Test
                           THEN [NoHist.prev EXCEPT !.tested = TRUE]
                           ELSE IF remember /\ ~args.clean
                           THEN [done |-> TRUE, tested |-> FALSE,
                                 unchanged |-> remote' = remote,
                                 present |-> hist.files # {} /\ Present(hist.files, mirror'),
                                 keep |-> Range(filesToKeep),
                                 files |-> {x.Filename : x \in hist.files}]
                           ELSE NoHist.prev]
    /\ UNCHANGED <<fixed, skel, var>>

StartOver(from, remotes, mirrors, remember) ==
    StartOverWith(from, remotes, mirrors, remember, MaxRuns, FALSE)

\* The program is started again after a run that ended, was interrupted or
\* failed; nothing outside the program has touched the archive or the disk.
Restart ==
    StartOver({"done", "killed", "error"}, {remote}, {mirror}, FALSE)

\* The program is started again after a completed run.  In between the
\* archive may have published its indices anew and a file that no index
\* names may have appeared in the mirror tree.
Rerun ==
    StartOver({"done"},
              {remote, Republished(remote)},
              {mirror, WriteFile(mirror, OrphanPath, File(1, clock, NoData))},
              TRUE)

Next ==
    \/ Preflight
    \/ AcquireLock
    \/ StartRelease
    \/ \E w \in Workers : WorkerStart(w)
    \/ \E w \in Workers : WorkerFinish(w)
    \/ PoolDone
    \/ DiscoverIndices
    \/ Timestamping
    \/ Decompress
    \/ ParseIndices
    \/ Publish
    \/ PostMirrorCleanStep
    \/ TestTail
    \/ PerformClean
    \/ Finish
    \/ Kill
    \/ Restart

Spec == Init /\ [][Next]_vars

\* The same program over the other configuration files.
SpecVariants == InitVariants /\ [][Next]_vars

\* Completed runs one after the other over an archive and a mirror tree that
\* change in between.
NextRerun ==
    \/ Preflight
    \/ AcquireLock
    \/ StartRelease
    \/ \E w \in Workers : WorkerStart(w)
    \/ \E w \in Workers : WorkerFinish(w)
    \/ PoolDone
    \/ DiscoverIndices
    \/ Timestamping
    \/ Decompress
    \/ ParseIndices
    \/ Publish
    \/ PostMirrorCleanStep
    \/ TestTail
    \/ PerformClean
    \/ Finish
    \/ Rerun

SpecRerun == Init /\ [][NextRerun]_vars

(***************************************************************************)
(* Properties of a run                                                     *)
(***************************************************************************)

\* C1: what Clean deletes.  Every path a pass of Clean (from Post-Mirror
\* Clean or from clean mode) removed from the mirror tree was a regular
\* file, not a symbolic link and not a directory, and is neither in the
\* required set handed to Clean nor in files_to_keep.
C1_CleanDeletesOnlyUnrequiredFiles ==
    \A d \in hist.removed :
        /\ d.kind = "file"
        /\ d.path \notin hist.required
        /\ d.path \notin Range(filesToKeep)

\* Clean mode has removed a file of a mirror that holds a symbolic link and
\* files it must keep.
C1_CleanRemovedAnOrphan ==
    /\ pc = "done"
    /\ args.clean
    /\ hist.removed # {}
    /\ islink(mirror, LinkPath)
    /\ \E p \in Range(filesToKeep) : isfile(mirror, p)

\* C2: in test mode a pass of Clean, from mirror mode or from clean mode,
\* leaves every path of the mirror tree in place.
C2_TestModeCleanDeletesNothing ==
    (hist.cleans = 1 /\ settings.Test) => hist.removed = {}

\* Post-Mirror Clean ran in test mode on a mirror holding a file no index
\* lists.
C2_TestCleanSawAnOrphan ==
    /\ hist.cleans = 1
    /\ settings.Test
    /\ ~args.clean
    /\ OrphanPath \notin hist.required
    /\ isfile(mirror, OrphanPath)

\* C3: every file of the mirror tree that a crash marker in var/ pointed
\* at when the program started is gone once pre-flight is over: when the
\* application lock is about to be taken, and when it has been taken and no
\* phase has begun.
C3_MarkedFileDeletedInPreflight ==
    pc \in {"lock", "mirror", "clean"} => \A p \in hist.pending : ~isfile(mirror, p)

\* Pre-flight is over in a run that started with a marker pointing at a
\* file of the mirror.
C3_MarkerWasPending == pc = "lock" /\ hist.pending # {}

\* The half-written files of a tree.
HalfWritten(tree) == {p \in DOMAIN tree : ~tree[p].whole}

\* C4: when pre-flight is over no half-written file is left, neither in
\* skel/ (Release and Index transfers) nor in mirror/ (Archive transfers).
C4_HalfWrittenFilesDeleted ==
    pc = "lock" => HalfWritten(skel) = {} /\ HalfWritten(mirror) = {}

\* The files registered in the collection of a repository.
EntriesOf(repo) ==
    IF repo.repositoryType = "Bin"
    THEN {k[3] : k \in DOMAIN repo.packageCollection}
    ELSE {k[2] : k \in DOMAIN repo.sourceCollection}

TimestampsOf(repo) ==
    IF repo.repositoryType = "Bin"
    THEN {repo.packageCollection[k] : k \in DOMAIN repo.packageCollection}
    ELSE {repo.sourceCollection[k] : k \in DOMAIN repo.sourceCollection}

\* C7: in a mirror run that started with the sentinel in var/ the
\* interrupted flag is set from pre-flight on, and once the indices have
\* been parsed every entry left in a collection has had its index parsed.
C7_InterruptedRunParsesEveryIndex ==
    /\ (hist.sentinel /\ pc \notin {"start", "killed"})
          => settings.PreviousRunInterrupted
    /\ (hist.sentinel /\ ~args.clean /\ pc \in {"publish", "gc", "tail"})
          => \A i \in 1..Len(repositories) :
                \A f \in EntriesOf(repositories[i]) : splitext(f) \in hist.parsed

\* Such a run has parsed its indices although no timestamp changed.
C7_ParsedWithEqualTimestamps ==
    /\ hist.sentinel
    /\ ~args.clean
    /\ pc = "publish"
    /\ \E i \in 1..Len(repositories) :
          /\ EntriesOf(repositories[i]) # {}
          /\ \A t \in TimestampsOf(repositories[i]) : ~TimestampModified(t)

\* C10 as the specification states it: after the publish step every path
\* of files_to_keep that is a file in skel/ is a file in mirror/ that is
\* not older.
C10_PublishMonotone_AsStated ==
    pc = "gc" =>
        \A p \in Range(filesToKeep) :
            isfile(skel, p) =>
                isfile(mirror, p) /\ getmtime(mirror, p) >= getmtime(skel, p)

\* C10: after the publish step of a run that is not in test mode every
\* path of files_to_keep that is a file in skel/ is a file in mirror/ whose
\* modification time is at least that of the skel copy or is the time at
\* which the step made the copy.
C10_PublishMonotone ==
    (pc = "gc" /\ ~settings.Test) =>
        \A p \in Range(filesToKeep) :
            isfile(skel, p) =>
                /\ isfile(mirror, p)
                /\ \/ getmtime(mirror, p) >= getmtime(skel, p)
                   \/ getmtime(mirror, p) = clock

\* The publish step has run over a mirror that already held a copy which
\* the skel copy is newer than.
C10_PublishedOverOlderCopy ==
    /\ pc = "gc"
    /\ ~settings.Test
    /\ run = 2
    /\ \E p \in Range(filesToKeep) :
          /\ isfile(skel, p)
          /\ getmtime(skel, p) = clock
          /\ getmtime(mirror, p) = clock

(***************************************************************************)
(* Repository._ProcessIndex and _NeedUpdate on their own: one index, read  *)
(* against every local state of the file it lists                          *)
(***************************************************************************)

\* An index of a binary repository listing pool/x_1.deb at a size.
PackagesOfSize(size) ==
    [PackagesLines EXCEPT ![4] = <<"Size", ":", " ", size, "\n">>]

\* An index of a source repository listing pool/y_1.dsc at a size.
SourcesOfSize(size) ==
    [SourcesLines EXCEPT ![4] = <<" ", "c1", " ", size, " ", "y_1", ".", "dsc", "\n">>]

InitNeedUpdate ==
    /\ pc = "call"
    /\ run = 1
    /\ config = [repos |-> <<>>, noClean |-> <<>>]
    /\ \E force \in BOOLEAN :
          settings = [SettingsOf(FALSE, TRUE) EXCEPT !.ForceUpdate = force]
    /\ \E size \in {"42", "50", "100"}, repo \in {RepoBin, RepoSrc} :
          /\ repositories = <<repo>>
          /\ skel = IF repo.repositoryType = "Bin"
                    THEN WriteFile(EmptyTree, DistsA \o PackagesName,
                                   File(5, 1, Plain(PackagesOfSize(size))))
                    ELSE WriteFile(EmptyTree, DistsA \o SourcesName,
                                   File(5, 1, Plain(SourcesOfSize(size))))
          /\ indexFiles = <<DistsA \o (IF repo.repositoryType = "Bin"
                                       THEN PackagesName ELSE SourcesName)>>
          /\ \E local \in {0, 42, 50} :
                mirror = IF local = 0 THEN EmptyTree
                         ELSE WriteFile(EmptyTree,
                                  PoolA \o (IF repo.repositoryType = "Bin"
                                            THEN <<"x_1", ".", "deb">>
                                            ELSE <<"y_1", ".", "dsc">>),
                                  File(local, 1, NoData))
    /\ \E skip \in BOOLEAN : args = [skipUpdateCheck |-> skip]
    /\ filesToKeep = <<>>
    /\ releaseFiles = <<>>
    /\ filesToDownload = <<>>
    /\ cwd = "skel"
    /\ var = EmptyTree
    /\ remote = EmptyTree
    /\ clock = 2
    /\ pool = IdlePool
    /\ hist = NoHist
    /\ procs = NoProcs
    /\ lockFile = NoLockFile

\* self._ProcessIndex(Settings.SkelPath(), file, skipUpdateCheck)
ProcessIndexCall ==
    /\ pc = "call"
    /\ LET got == ProcessIndex(repositories[1], skel, mirror, indexFiles[1],
                               args.skipUpdateCheck, settings)
       IN  /\ filesToDownload' = got.packages
           /\ pc' = IF got.error THEN "error" ELSE "returned"
    /\ UNCHANGED <<run, args, settings, fixed, repositories, filesToKeep,
                   releaseFiles, indexFiles, cwd, disk, remote, clock, pool, hist>>

SpecNeedUpdate == InitNeedUpdate /\ [][ProcessIndexCall]_vars

IndexExts == {<<>>, <<".", "xz">>, <<".", "gz">>}

\* The URL of the index of a repository with an extension.
IndexUrl(repo, ext) ==
    BaseUrl(repo) \o (IF repo.repositoryType = "Bin" THEN PackagesName ELSE SourcesName)
    \o ext

\* The times a file of skel/ may carry.
FileTimes == {1, 2}

InitCollection ==
    /\ pc = "register"
    /\ run = 1
    /\ config = [repos |-> <<>>, noClean |-> <<>>]
    /\ args = [test |-> FALSE, clean |-> FALSE]
    /\ \E interrupted \in BOOLEAN, force \in BOOLEAN :
          settings = [SettingsOf(FALSE, TRUE) EXCEPT
                         !.PreviousRunInterrupted = interrupted,
                         !.ForceUpdate = force]
    /\ \E repo \in {RepoBin, RepoSrc} :
          /\ repositories = <<repo>>
          /\ skel \in {EmptyTree,
                       WriteFile(EmptyTree, SanitiseUri(IndexUrl(repo, <<".", "xz">>)),
                                 File(50, 1, NoData))}
    /\ filesToKeep = <<>>
    /\ releaseFiles = <<>>
    /\ indexFiles = <<>>
    /\ filesToDownload = <<>>
    /\ cwd = "skel"
    /\ mirror = EmptyTree
    /\ var = EmptyTree
    /\ remote = EmptyTree
    /\ clock = 2
    /\ pool = IdlePool
    /\ hist = NoHist
    /\ procs = NoProcs
    /\ lockFile = NoLockFile

\* The end of _ParseReleaseFiles: the files are added to the collection
\* and the current timestamps are taken.
Register ==
    /\ pc = "register"
    /\ \E exts \in SUBSET IndexExts \ {{}} :
          LET repo == repositories[1]
              urls == {IndexUrl(repo, e) : e \in exts}
          IN  /\ indexFiles' = SetToSeq(urls)
              /\ repositories' =
                    << IF repo.repositoryType = "Bin"
                       THEN [repo EXCEPT !.packageCollection =
                               PackageDetermineCurrentTimestamps(
                                 PackageAddAll(@, {<<"main", "amd64", u>> : u \in urls}),
                                 skel)]
                       ELSE [repo EXCEPT !.sourceCollection =
                               SourceDetermineCurrentTimestamps(
                                 SourceAddAll(@, {<<"main", u>> : u \in urls}), skel)] >>
    /\ pc' = "fetch"
    /\ UNCHANGED <<run, args, settings, fixed, filesToKeep, releaseFiles,
                   filesToDownload, cwd, disk, remote, clock, pool, hist>>

\* The downloader leaves some of the registered files in skel/.
Fetch ==
    /\ pc = "fetch"
    /\ \E got \in SUBSET Range(indexFiles), t \in FileTimes :
          skel' = [p \in DOMAIN skel \cup
                         UNION {{Target(u)} \cup Ancestors(Target(u)) : u \in got} |->
                      IF p \in {Target(u) : u \in got} THEN File(50, t, NoData)
                      ELSE IF p \in DOMAIN skel THEN skel[p] ELSE Dir]
    /\ pc' = "record"
    /\ UNCHANGED <<run, args, settings, fixed, repositories, lists, cwd, mirror,
                   var, remote, clock, pool, hist>>

\* Repository.Timestamp
Record ==
    /\ pc = "record"
    /\ repositories' = <<RepoTimestamp(repositories[1], skel)>>
    /\ hist' = [hist EXCEPT !.missing =
                  {u \in Range(indexFiles) : ~isfile(skel, SanitiseUri(u))}]
    /\ pc' = "recorded"
    /\ UNCHANGED <<run, args, settings, fixed, lists, cwd, disk, remote, clock,
                   pool>>

NextCollection == Register \/ Fetch \/ Record

SpecCollection == InitCollection /\ [][NextCollection]_vars

\* C6: with the interrupted flag or the force-update flag set, the
\* modified files of the collection of a repository, binary or source,
\* are the extension-stripped paths of all its entries, whatever their
\* timestamps.
C6_FlagsMakeEveryEntryModified ==
    (settings.PreviousRunInterrupted \/ settings.ForceUpdate) =>
        GetIndexFiles(repositories[1], TRUE, settings)
            = {splitext(f) : f \in EntriesOf(repositories[1])}

\* The interrupted flag is set and the collection holds an entry whose
\* timestamps are equal and one whose timestamps differ.
C6_FlagSetOverMixedTimestamps ==
    /\ settings.PreviousRunInterrupted
    /\ ~settings.ForceUpdate
    /\ \E t \in TimestampsOf(repositories[1]) : TimestampModified(t)
    /\ \E t \in TimestampsOf(repositories[1]) :
          ~TimestampModified(t) /\ t.Current # 0

\* What modified_files() and unmodified_files() return together.
Returned(repo) ==
    GetIndexFiles(repo, TRUE, settings) \cup GetIndexFiles(repo, FALSE, settings)

\* C8 as the specification states it: a registered file that is not in
\* skel/ when the download timestamps are recorded is afterwards returned
\* neither as modified nor as unmodified.
C8_MissingFileNotReturned_AsStated ==
    pc = "recorded" =>
        \A u \in hist.missing : SanitiseUri(u) \notin Returned(repositories[1])

\* C8: a registered file that is not in skel/ when the download timestamps
\* are recorded is afterwards no entry of the collection, and what is
\* returned as modified or unmodified are the extension-stripped paths of
\* the entries left, so the path of the file is returned only where an
\* entry left strips to it.
C8_MissingFilePruned ==
    pc = "recorded" =>
        /\ \A u \in hist.missing : SanitiseUri(u) \notin EntriesOf(repositories[1])
        /\ \A f \in EntriesOf(repositories[1]) : isfile(skel, f)
        /\ Returned(repositories[1]) = {splitext(f) : f \in EntriesOf(repositories[1])}

\* The uncompressed index was registered and not fetched, its compressed
\* form was fetched, and the flags are not set.
C8_PrunedBesideFetchedSibling ==
    /\ pc = "recorded"
    /\ ~settings.PreviousRunInterrupted
    /\ ~settings.ForceUpdate
    /\ IndexUrl(repositories[1], <<>>) \in hist.missing
    /\ SanitiseUri(IndexUrl(repositories[1], <<".", "xz">>)) \in EntriesOf(repositories[1])

(***************************************************************************)
(* main() of several invocations side by side on one mirror root: the      *)
(* application lock.  A FileLock is an exclusive flock on the file its     *)
(* path names when it is taken; on Unix a file can be removed while it is  *)
(* open and locked, and the path then names no file until it is created    *)
(* again, as another file; on Windows removing an open file fails and a    *)
(* released lock file is removed.                                          *)
(***************************************************************************)

Procs == 1..Invocations

InitLock ==
    /\ pc = "side by side"
    /\ run = 1
    /\ config \in Configs
    /\ args = [test |-> FALSE, clean |-> FALSE]
    /\ settings = SettingsOf(FALSE, TRUE)
    /\ repositories = <<>>
    /\ filesToKeep = <<>>
    /\ releaseFiles = <<>>
    /\ indexFiles = <<>>
    /\ filesToDownload = <<>>
    /\ cwd = "home"
    /\ skel = EmptyTree
    /\ mirror = EmptyTree
    /\ var = EmptyTree
    /\ remote = EmptyTree
    /\ clock = 2
    /\ pool = IdlePool
    /\ hist = NoHist
    /\ procs = [p \in Procs |-> [pc |-> "start", fd |-> 0, clean |-> FALSE]]
    /\ \E unix \in BOOLEAN : lockFile = [NoLockFile EXCEPT !.unix = unix]

\* The invocations that hold a file of var/ open.
Holders(inode) == {q \in Procs : procs[q].fd = inode /\ inode # 0}

\* main() of invocation p, from Downloader.Init to the emptying of var/.
\* Removing the lock file another invocation holds open succeeds on Unix
\* and raises on Windows.
LockPreflight(p) ==
    /\ procs[p].pc = "start"
    /\ \E clean \in BOOLEAN :
          IF ~lockFile.unix /\ Holders(lockFile.inode) # {}
          THEN /\ procs' = [procs EXCEPT ![p].pc = "error"]
               /\ UNCHANGED <<var, lockFile>>
          ELSE /\ procs' = [procs EXCEPT ![p].pc = "lock", ![p].clean = clean]
               /\ var' = RemoveFiles(DownloaderInit(var), DOMAIN var)
               /\ lockFile' = [lockFile EXCEPT !.inode = 0]
    /\ UNCHANGED <<pc, run, args, settings, config, repositories, lists, cwd, skel,
                   mirror, remote, clock, pool, hist>>

\* with FileLock(...): the file is created if the path names none, and the
\* lock is taken when no other invocation holds a lock on that file (the
\* invocation waits otherwise); then the sentinel is written.
LockAcquire(p) ==
    /\ procs[p].pc = "lock"
    /\ LET fresh == lockFile.inode = 0
           inode == IF fresh THEN lockFile.made + 1 ELSE lockFile.inode
       IN  /\ Holders(inode) = {}
           /\ lockFile' = [lockFile EXCEPT !.inode = inode,
                                           !.made = IF fresh THEN @ + 1 ELSE @]
           /\ procs' = [procs EXCEPT ![p].pc = IF procs[p].clean THEN "clean"
                                                ELSE "mirror",
                                     ![p].fd = inode]
           /\ var' = WriteFile(WriteFile(var, LockOf(appLockFile), File(0, clock, NoData)),
                               appLockFile, File(0, clock, NoData))
    /\ UNCHANGED <<pc, run, args, settings, config, repositories, lists, cwd, skel,
                   mirror, remote, clock, pool, hist>>

\* PerformClean or PerformMirroring returns and the with block is left:
\* the lock is released; on Windows the released lock file is removed.
LockRelease(p) ==
    /\ procs[p].pc \in {"mirror", "clean"}
    /\ procs' = [procs EXCEPT ![p].pc = "finish", ![p].fd = 0]
    /\ IF ~lockFile.unix /\ lockFile.inode = procs[p].fd
       THEN /\ var' = RemoveFile(var, LockOf(appLockFile))
            /\ lockFile' = [lockFile EXCEPT !.inode = 0]
       ELSE UNCHANGED <<var, lockFile>>
    /\ UNCHANGED <<pc, run, args, settings, config, repositories, lists, cwd, skel,
                   mirror, remote, clock, pool, hist>>

\* main(): the sentinel is removed (remove raises when it is not there),
\* then the lock file if there is one.
LockFinish(p) ==
    /\ procs[p].pc = "finish"
    /\ IF ~isfile(var, appLockFile)
       THEN /\ procs' = [procs EXCEPT ![p].pc = "error"]
            /\ UNCHANGED <<var, lockFile>>
       ELSE IF isfile(var, LockOf(appLockFile))
               /\ (lockFile.unix \/ Holders(lockFile.inode) = {})
       THEN /\ procs' = [procs EXCEPT ![p].pc = "done"]
            /\ var' = RemoveFile(RemoveFile(var, appLockFile), LockOf(appLockFile))
            /\ lockFile' = [lockFile EXCEPT !.inode = 0]
       ELSE /\ procs' = [procs EXCEPT ![p].pc = IF isfile(var, LockOf(appLockFile))
                                                THEN "error" ELSE "done"]
            /\ var' = RemoveFile(var, appLockFile)
            /\ UNCHANGED lockFile
    /\ UNCHANGED <<pc, run, args, settings, config, repositories, lists, cwd, skel,
                   mirror, remote, clock, pool, hist>>

NextLock ==
    \/ \E p \in Procs : LockPreflight(p)
    \/ \E p \in Procs : LockAcquire(p)
    \/ \E p \in Procs : LockRelease(p)
    \/ \E p \in Procs : LockFinish(p)

SpecLock == InitLock /\ [][NextLock]_vars

\* C5: at no time are two invocations on the same mirror root between
\* taking and releasing the application lock, that is in their mirror or
\* clean phases.
C5_AtMostOneRun ==
    Cardinality({p \in Procs : procs[p].pc \in {"mirror", "clean"}}) <= 1

(***************************************************************************)
(* Properties of the phases of a mirror run                                *)
(***************************************************************************)

\* How many times u stands in the list urls.
Occurrences(urls, u) == Cardinality({i \in 1..Len(urls) : urls[i] = u})

\* Every transfer of the list handed to the pool of this kind has returned.
AllFinished(kind, urls) ==
    \A u \in Range(urls) :
        Times(hist.finished, <<kind, u>>) = Occurrences(urls, u)

\* The URLs step 5 hands to the pool: the files that are not up to date.
ArchiveUrls ==
    [i \in 1..Len(SelectSeq(filesToDownload, LAMBDA x : ~x.Latest)) |->
        SelectSeq(filesToDownload, LAMBDA x : ~x.Latest)[i].Filename]

\* C11: the phases of a mirror run are barriers passed in a fixed order.
\* Once any Index transfer has started, every Release transfer has returned;
\* once an index has been parsed, the timestamps of every repository are
\* recorded and every parsed index lies decompressed in skel/; once the
\* copy from skel/ to mirror/ can begin, every Archive transfer has
\* returned; once Post-Mirror Clean has run, every copy of the publish step
\* has been made.
C11_PhasesAreBarriers ==
    /\ (\E k \in DOMAIN hist.started : k[1] = "Index")
            => AllFinished("Release", releaseFiles)
    /\ (hist.parsed # {} /\ pc \in {"download", "publish", "gc"}) =>
            /\ \A f \in hist.parsed : isfile(skel, f) /\ skel[f].whole
            /\ \A i \in 1..Len(repositories) :
                   /\ \A f \in EntriesOf(repositories[i]) : isfile(skel, f)
                   /\ \A ts \in TimestampsOf(repositories[i]) : ts.Download > 0
    /\ (~args.clean /\ ~settings.Test /\ pc \in {"publish", "gc", "tail", "finish", "done"})
            => /\ AllFinished("Archive", ArchiveUrls)
               /\ \A w \in Workers : pool.busy[w] = NoUrl
    /\ (~args.clean /\ ~settings.Test /\ hist.cleans = 1) =>
            \A p \in Range(filesToKeep) : isfile(skel, p) => isfile(mirror, p)

\* A mirror run went through all four barriers: Release, Index and Archive
\* transfers were made, indices were parsed, and Post-Mirror Clean removed a
\* file after the publish step.
C11_RunPassedEveryBarrier ==
    /\ ~args.clean /\ ~settings.Test
    /\ pc = "done"
    /\ \E k \in DOMAIN hist.finished : k[1] = "Release"
    /\ \E k \in DOMAIN hist.finished : k[1] = "Index"
    /\ \E k \in DOMAIN hist.finished : k[1] = "Archive"
    /\ hist.parsed # {}
    /\ hist.removed # {}

\* C12: unchanged rerun.  In a mirror run that starts after a completed run
\* when every file the indices reference is in the mirror tree with its
\* declared size, no Archive URL is handed to the downloader: not when the
\* archive has not changed since, and not when it has published the same
\* indices anew.
C12_UnchangedRerunFetchesNoArtifact ==
    (~args.clean /\ hist.prev.done /\ hist.prev.present) =>
        \A k \in DOMAIN hist.started : k[1] # "Archive"

\* A second mirror run has fetched Release files and has ended after a
\* first run that completed, with the archive unchanged and every
\* referenced file in place.
C12_SecondRunOverCompleteMirror ==
    /\ pc = "done"
    /\ ~args.clean /\ ~settings.Test
    /\ hist.prev.done /\ hist.prev.unchanged /\ hist.prev.present
    /\ \E k \in DOMAIN hist.finished : k[1] = "Release"

\* C13 as stated: at the end of a mirror run that follows a completed run
\* with the archive unchanged, files_to_keep is the set the first run ended
\* with, package filenames included, and Clean has deleted nothing.
C13_SameKeepSet_AsStated ==
    (pc = "done" /\ ~args.clean /\ hist.prev.done /\ hist.prev.unchanged) =>
        /\ Range(filesToKeep) = hist.prev.keep
        /\ hist.removed = {}

\* C13: at the end of a mirror run that follows a completed run with the
\* archive unchanged, files_to_keep is the set the first run ended with less
\* its package filenames (the same release paths and index paths; no index
\* is parsed), Post-Mirror Clean has selected no repository and nothing has
\* been deleted.
C13_SameReleaseAndIndexPaths ==
    (pc = "done" /\ ~args.clean /\ hist.prev.done /\ hist.prev.unchanged) =>
        /\ Range(filesToKeep) = hist.prev.keep \ hist.prev.files
        /\ Range(filesToKeep) = Range(KeepOf(releaseFiles \o indexFiles))
        /\ hist.cleans = 0
        /\ hist.removed = {}

\* An unchanged rerun has ended over a mirror that holds the package files
\* of the first run and a file no index references.
C13_RerunOverMirrorWithOrphan ==
    /\ pc = "done" /\ ~args.clean /\ ~settings.Test
    /\ hist.prev.done /\ hist.prev.unchanged
    /\ hist.prev.files # {}
    /\ \A p \in hist.prev.files : isfile(mirror, p)
    /\ isfile(mirror, OrphanPath)

\* C14 as stated: when a mirror run with clean enabled ends after a
\* completed run, the file no index references that was put below the
\* repository's mirror subtree is gone, and every referenced file is in
\* place.
C14_OrphanDeleted_AsStated ==
    (pc = "done" /\ ~args.clean /\ ~settings.Test /\ settings.CleanEnabled
        /\ hist.prev.done) =>
        /\ ~isfile(mirror, OrphanPath)
        /\ \A p \in hist.prev.files : isfile(mirror, p)

\* C14: when a mirror run with clean enabled ends after a completed run,
\* the file no index references is gone if the archive has published its
\* indices anew since that run (the repository is modified); if the archive
\* is unchanged no Clean has run; in both cases every referenced file is in
\* place.
C14_OrphanDeletedWhenModified ==
    (pc = "done" /\ ~args.clean /\ ~settings.Test /\ settings.CleanEnabled
        /\ hist.prev.done) =>
        /\ ~hist.prev.unchanged => ~isfile(mirror, OrphanPath)
        /\ hist.prev.unchanged => hist.cleans = 0
        /\ \A p \in hist.prev.files : isfile(mirror, p)

\* After a completed run and a new publication, the next mirror run has
\* removed the orphan and has kept the package files.
C14_OrphanRemovedAfterRepublication ==
    /\ pc = "done" /\ ~args.clean /\ ~settings.Test /\ settings.CleanEnabled
    /\ hist.prev.done /\ ~hist.prev.unchanged
    /\ \E d \in hist.removed : d.path = OrphanPath
    /\ hist.prev.files # {}
    /\ \A p \in hist.prev.files : isfile(mirror, p)

\* The files of var/.
VarFiles == {n \in DOMAIN var : var[n].kind # "dir"}

\* What the workers of the pools leave behind: the lock files of their
\* markers and the logs wget appends to.
WorkerLeftovers ==
    {LockOf(MarkerOf(w)) : w \in Workers}
    \cup {LogOf(kind, w) : kind \in {"Release", "Index", "Archive"}, w \in Workers}

\* C16 as stated: when a run in which a download was made has ended
\* normally there is no file in var/, and the sentinel is in var/ neither
\* before the lock is taken nor after the end of the run.
C16_VarEmpty_AsStated ==
    /\ (pc = "done" /\ hist.finished # NoTally) => VarFiles = {}
    /\ pc \in {"lock", "done"} => ~isfile(var, appLockFile)

\* C16: when a run has ended normally var/ holds neither the sentinel nor
\* the application's lock file nor a crash marker; the only files in it are
\* lock files of markers and transfer logs, which the workers never remove.
\* The sentinel is in var/ neither before the lock is taken nor after the
\* end of the run.
C16_OnlyLocksAndLogsLeft ==
    /\ pc = "done" => VarFiles \subseteq WorkerLeftovers
    /\ pc \in {"lock", "done"} => ~isfile(var, appLockFile)

\* A mirror run has ended normally and has left a transfer log and the
\* lock file of a marker in var/.
C16_LogsLeftAfterRun ==
    /\ pc = "done"
    /\ hist.finished # NoTally
    /\ \E w \in Workers : /\ isfile(var, LockOf(MarkerOf(w)))
                          /\ isfile(var, LogOf("Release", w))
    /\ ~isfile(var, LockOf(appLockFile))

(***************************************************************************)
(* Properties of a run over the other configuration files                  *)
(***************************************************************************)

\* C15: first run over an archive whose Release file declares only
\* main/binary-amd64/Packages.xz and whose index lists one package of size
\* 42.  When the run has ended, the decompressed Packages index is a file of
\* the mirror tree and the package file is in the mirror tree with size 42.
C15_DecompressedIndexPublished ==
    (pc = "done" /\ run = 1 /\ ~args.clean /\ ~settings.Test
        /\ config.repos = <<RepoC>>) =>
        /\ isfile(mirror, DistsC \o PackagesName)
        /\ isfile(mirror, PoolC \o <<"x_1", ".", "deb">>)
        /\ getsize(mirror, PoolC \o <<"x_1", ".", "deb">>) = 42

\* skel/<host>/<path>/dists/<distribution> of a repository.
DistsDir(repo) == SanitiseUri(repo.uri) \o <<"/", "dists", "/">> \o repo.distribution

\* C17: missing origin.  In a mirror run, once the Release files have been
\* fetched, a repository whose directory skel/<host>/<path>/dists/<dist> does
\* not exist is removed and the run goes on: the run does not end in an
\* unhandled error while the index files are planned, and every repository
\* that is still there afterwards has that directory.
C17_MissingOriginSkipped ==
    (~args.clean /\ releaseFiles # <<>>) =>
        /\ ~(pc = "error" /\ indexFiles = <<>>)
        /\ pc \in {"timestamp", "decompress", "parse", "publish", "gc", "tail",
                   "finish", "done"} =>
               \A i \in 1..Len(repositories) : isdir(skel, DistsDir(repositories[i]))

\* C19: no two workers of a pool write one path at the same time.  The
\* markers of two workers have different names, and the URLs the run hands
\* to a pool never have two workers at once on transfers that write one
\* path below the working directory (transfers of a file the server has).
C19_NoTwoWorkersOnOnePath ==
    \A w1 \in Workers, w2 \in Workers :
        w1 # w2 =>
            /\ MarkerOf(w1) # MarkerOf(w2)
            /\ (pool.busy[w1] # NoUrl /\ pool.busy[w2] # NoUrl
                    /\ Served(Target(pool.busy[w1]))) =>
                   Target(pool.busy[w1]) # Target(pool.busy[w2])

\* C20: a `clean URI False` line disables the removal of files for that
\* URI.  In a mirror run and in a clean run, whatever repositories share
\* the URI, no path a pass of Clean removed lies below the mirror subtree
\* of a URI named by such a line.
C20_NoCleanBelowDisabledUri ==
    \A i \in 1..Len(config.noClean) :
        \A d \in hist.removed :
            ~IsPrefix(SanitiseUri(config.noClean[i]) \o <<"/">>, d.path)

(***************************************************************************)
(* Downloader.Download on its own: any list of URLs, any set of URLs the   *)
(* server fails                                                            *)
(***************************************************************************)

PoolUrls == {BaseUrl(RepoBin) \o <<"InRelease">>, BaseUrl(RepoBin) \o <<"Release">>}

\* The server that has a file for the URLs of the list and fails the others.
RECURSIVE Serving(_)
Serving(urls) ==
    IF urls = <<>> THEN EmptyTree
    ELSE WriteFile(Serving(Tail(urls)), Target(Head(urls)), File(100, 1, NoData))

InitPool ==
    /\ pc = "call"
    /\ run = 1
    /\ config = [repos |-> <<>>, noClean |-> <<>>]
    /\ args = [test |-> FALSE, clean |-> FALSE]
    /\ settings = SettingsOf(FALSE, TRUE)
    /\ repositories = <<>>
    /\ filesToKeep = <<>>
    /\ releaseFiles \in UNION {[1..n -> PoolUrls] : n \in 0..MaxUrls}
    /\ indexFiles = <<>>
    /\ filesToDownload = <<>>
    /\ cwd = "skel"
    /\ skel = EmptyTree
    /\ mirror = EmptyTree
    /\ var = EmptyTree
    /\ remote \in {Serving(SetToSeq(ok)) : ok \in SUBSET PoolUrls}
    /\ clock = 2
    /\ pool = IdlePool
    /\ hist = NoHist
    /\ procs = NoProcs
    /\ lockFile = NoLockFile

\* Downloader.Download is called with the list.
Download ==
    /\ pc = "call"
    /\ StartPool("Release", releaseFiles, "returned")
    /\ UNCHANGED <<run, args, settings, fixed, repositories, lists, cwd, disk,
                   remote, clock, hist>>

NextPool ==
    \/ Download
    \/ \E w \in Workers : WorkerStart(w)
    \/ \E w \in Workers : WorkerFinish(w)
    \/ PoolDone

\* Where a step of WorkerStart and of WorkerFinish is enabled.
CanStart == pc = "download" /\ pool.urls # <<>> /\ \E w \in Workers : pool.busy[w] = NoUrl

CanFinish == pc = "download" /\ \E w \in Workers : pool.busy[w] # NoUrl

\* Weak fairness of the workers' steps, WF_vars(\E w : WorkerStart(w)) and
\* WF_vars(\E w : WorkerFinish(w)), with ENABLED written out as CanStart and
\* CanFinish: an idle worker of the pool takes the next URL, and wget ends
\* (its tries and waits are bounded).
FairStart == []<>(~CanStart) \/ []<><<\E w \in Workers : WorkerStart(w)>>_vars

FairFinish == []<>(~CanFinish) \/ []<><<\E w \in Workers : WorkerFinish(w)>>_vars

\* The parent creates the pool and takes the results as they come.
SpecPool ==
    /\ InitPool /\ [][NextPool]_vars
    /\ WF_vars(Download) /\ WF_vars(PoolDone)
    /\ FairStart /\ FairFinish

\* The marker of a worker is in var/ exactly while the worker holds its lock
\* and runs a transfer; when the call has returned every URL has been
\* started and ended as many times as it stands in the list, and no other.
PoolSafe ==
    /\ \A w \in Workers : isfile(var, MarkerOf(w)) <=> pool.busy[w] # NoUrl
    /\ pc = "returned" =>
           /\ \A u \in PoolUrls :
                  /\ Times(hist.started, <<"Release", u>>) = Occurrences(releaseFiles, u)
                  /\ Times(hist.finished, <<"Release", u>>) = Occurrences(releaseFiles, u)
           /\ DOMAIN hist.started \subseteq {<<"Release", u>> : u \in PoolUrls}

\* C18: for every list of URLs and every set of URLs whose transfer fails,
\* every URL is attempted exactly as many times as it stands in the list,
\* the marker of a worker is removed and its lock released after each
\* transfer, failed or not, and the call of the pool returns.
C18_PoolHandlesEveryUrl == []PoolSafe /\ <>(pc = "returned")

\* The call has returned for a list that names a URL twice, with a
\* transfer that failed and one that left its file in skel/.
C18_ReturnedAfterFailureAndRepeat ==
    /\ pc = "returned"
    /\ \E u \in PoolUrls : Occurrences(releaseFiles, u) = 2
    /\ \E u \in Range(releaseFiles) : ~Served(Target(u))
    /\ \E u \in Range(releaseFiles) : Served(Target(u)) /\ isfile(skel, Target(u))
    /\ Markers(var) = {}

(***************************************************************************)
(* Functions called on their own: the state holds the arguments of the     *)
(* call in args and what the call returned in hist.result                  *)
(***************************************************************************)

\* Everything a call of a function on its own neither reads nor writes.
BareCall ==
    /\ pc = "call"
    /\ run = 1
    /\ config = [repos |-> <<>>, noClean |-> <<>>]
    /\ settings = SettingsOf(FALSE, TRUE)
    /\ repositories = <<>>
    /\ filesToKeep = <<>>
    /\ releaseFiles = <<>>
    /\ indexFiles = <<>>
    /\ filesToDownload = <<>>
    /\ cwd = "skel"
    /\ mirror = EmptyTree
    /\ var = EmptyTree
    /\ remote = EmptyTree
    /\ clock = 2
    /\ pool = IdlePool
    /\ hist = NoHist
    /\ procs = NoProcs
    /\ lockFile = NoLockFile

(***************************************************************************)
(* helpers.SanitiseUri applied to what it returned                         *)
(***************************************************************************)

\* What a URI string is put together from.
UriPieces == {<<"http">>, <<":", "/", "/">>, <<"a">>, <<":">>, <<"80">>, <<"/">>}

\* The longest URI, in pieces.
MaxPieces == 5

Uris == {Flatten(ps) : ps \in UNION {[1..n -> UriPieces] : n \in 0..MaxPieces}}

InitSanitise ==
    /\ BareCall
    /\ skel = EmptyTree
    /\ \E u \in Uris : args = [uri |-> u, results |-> <<>>]

\* uri = SanitiseUri(uri), at most twice
SanitiseCall ==
    /\ pc \in {"call", "once"}
    /\ pc' = IF pc = "call" THEN "once" ELSE "twice"
    /\ args' = [uri |-> SanitiseUri(args.uri),
                results |-> Append(args.results, SanitiseUri(args.uri))]
    /\ UNCHANGED <<run, settings, config, repositories, lists, cwd, disk, remote,
                   clock, pool, hist, procs, lockFile>>

NextSanitise == SanitiseCall

SpecSanitise == InitSanitise /\ [][NextSanitise]_vars

\* The string starts with scheme://.
HasScheme(uri) == StripScheme(uri) # uri

\* The string holds a colon followed by digits.
HasPort(uri) == StripPorts(uri) # uri

\* C21: sanitization fixpoint.  For every URI string, sanitising what
\* SanitiseUri returned returns the same string, and what SanitiseUri
\* returned starts with no scheme:// and holds no :port.
C21_SanitiseIsFixpoint ==
    Len(args.results) >= 1 =>
        /\ ~HasScheme(args.results[1])
        /\ ~HasPort(args.results[1])
        /\ Len(args.results) = 2 => args.results[2] = args.results[1]

(***************************************************************************)
(* helpers.UnzipFile on its own: one index, every combination of its       *)
(* compressed forms on disk                                                *)
(***************************************************************************)

UnzipTarget == DistsA \o PackagesName

\* The forms, in the order of the code's tests.
Formats == <<"xz", "gz", "bz2">>

\* What file.<ext> can be: not there, an archive of the format whose
\* decoded content is the one line <<ext>>, a file of that name that is no
\* archive of the format, an archive cut short.
FormStates == {"absent", "good", "other", "cut"}

FormFile(ext, state) ==
    IF state = "good" THEN File(1, 1, [format |-> ext, lines |-> <<<<ext>>>>])
    ELSE IF state = "other" THEN File(1, 1, Plain(<<<<ext>>>>))
    ELSE [File(1, 1, [format |-> ext, lines |-> <<<<ext>>>>]) EXCEPT !.whole = FALSE]

RECURSIVE WithForms(_, _, _)
WithForms(tree, forms, i) ==
    IF i > Len(Formats) THEN tree
    ELSE WithForms(IF forms[i] = "absent" THEN tree
                   ELSE WriteFile(tree, UnzipTarget \o <<".", Formats[i]>>,
                                  FormFile(Formats[i], forms[i])),
                   forms, i + 1)

InitUnzip ==
    /\ BareCall
    /\ \E forms \in [1..Len(Formats) -> FormStates], old \in BOOLEAN :
          /\ args = [file |-> UnzipTarget, forms |-> forms]
          /\ skel = WithForms(IF old THEN WriteFile(EmptyTree, UnzipTarget,
                                                    File(1, 1, Plain(<<<<"a">>>>)))
                              ELSE EmptyTree,
                              forms, 1)

\* UnzipFile(file)
UnzipCall ==
    /\ pc = "call"
    /\ pc' = "returned"
    /\ \E done \in {UnzipFile(skel, args.file, clock)} :
          /\ skel' = done.tree
          /\ hist' = [hist EXCEPT !.result = [error |-> done.error,
                                             unsupported |-> done.unsupported]]
    /\ UNCHANGED <<run, args, settings, config, repositories, lists, cwd, mirror,
                   var, remote, clock, pool, procs, lockFile>>

NextUnzip == UnzipCall

SpecUnzip == InitUnzip /\ [][NextUnzip]_vars

\* The position in Formats of the first form that is on disk, 0 for none.
FirstForm(forms) ==
    IF \A i \in 1..Len(Formats) : forms[i] = "absent" THEN 0
    ELSE CHOOSE i \in 1..Len(Formats) :
            /\ forms[i] # "absent"
            /\ \A j \in 1..(i - 1) : forms[j] = "absent"

\* C22: decompression preference.  After UnzipFile(f) has returned, f holds
\* the decoded content of the first of f.xz, f.gz, f.bz2 that is on disk
\* where that file decodes - the xz content when all three are there, the gz
\* content when only gz and bz2 are - and the call has failed without
\* trying a later form where it does not; no compressed form is changed.
C22_FirstExistingFormWins ==
    pc = "returned" =>
        LET first == FirstForm(args.forms)
        IN  /\ first # 0 /\ args.forms[first] = "good" =>
                  /\ ~hist.result.error /\ ~hist.result.unsupported
                  /\ isfile(skel, args.file)
                  /\ skel[normpath(args.file)].data = Plain(<<<<Formats[first]>>>>)
            /\ first # 0 /\ args.forms[first] # "good" => hist.result.error
            /\ first = 0 <=> hist.result.unsupported
            /\ skel = WithForms(IF isfile(skel, args.file)
                                THEN WriteFile(EmptyTree, args.file,
                                               skel[normpath(args.file)])
                                ELSE EmptyTree,
                                args.forms, 1)

\* The call has returned with all three forms on disk and decodable, and
\* the file holds the xz content.
C22_UnzippedWithAllThreeForms ==
    /\ pc = "returned"
    /\ args.forms = [i \in 1..Len(Formats) |-> "good"]
    /\ skel[normpath(args.file)].data = Plain(<<<<"xz">>>>)

(***************************************************************************)
(* The decompression step over an index with no compressed form            *)
(***************************************************************************)

\* The modified indices of the repositories, by repository.
ModifiedIndices == UNION {GetIndexFiles(repositories[i], TRUE, settings) :
                             i \in 1..Len(repositories)}

\* C23: decompression of a missing index.  When the decompression step has
\* run over a modified index X none of whose forms X.xz, X.gz, X.bz2 is on
\* disk, a message about X has been logged, X is as it was, every other
\* modified index has been written from its compressed form, and the run
\* goes on with the next step.
C23_MissingIndexWarnedAndSkipped ==
    (pc = "parse" /\ \E x \in ModifiedIndices : Compressed(skel, x) = "none") =>
        \A x \in ModifiedIndices :
            IF Compressed(skel, x) = "none"
            THEN /\ x \in hist.logged
                 /\ isfile(skel, x) => getmtime(skel, x) < clock
            ELSE /\ isfile(skel, x)
                 /\ getmtime(skel, x) = clock

(***************************************************************************)
(* Index.Read and Index.GetPackages on their own: every short file made of *)
(* key lines, continuation lines and blank lines                           *)
(***************************************************************************)

BlankLine == <<"\n">>

\* The lines an index file is made of: three retained keys, a key that is
\* not retained, an indented line, a blank line.
IndexLines ==
    { <<"Filename", ":", " ", "pool", "/", "x_1", ".", "deb", "\n">>,
      <<"Size", ":", " ", "42", "\n">>,
      <<"Files", ":", "\n">>,
      <<"Installed-Size", ":", " ", "100", "\n">>,
      <<" ", "c1", " ", "50", " ", "y_1", ".", "dsc", "\n">>,
      BlankLine }

\* The longest index file, in lines.
MaxLines == 5

InitParse ==
    /\ BareCall
    /\ skel = EmptyTree
    /\ \E lines \in UNION {[1..n -> IndexLines] : n \in 0..MaxLines} :
          args = [lines |-> lines]

\* index.Read(); index.GetPackages()
ParseCall ==
    /\ pc = "call"
    /\ pc' = "returned"
    /\ hist' = [hist EXCEPT !.result = GetPackages(args.lines)]
    /\ UNCHANGED <<run, args, settings, config, repositories, lists, cwd, disk,
                   remote, clock, pool, procs, lockFile>>

NextParse == ParseCall

SpecParse == InitParse /\ [][NextParse]_vars

Indented(line) == Head(line) = " "

\* The line gives a key: it is neither blank nor indented.
GivesKey(line) == line # BlankLine /\ ~Indented(line)

KeyGiven(line) == SplitOn(line, ":")[1]

\* The line gives one of the keys the parser retains.
GivesRetained(line) == GivesKey(line) /\ KeyGiven(line) \in keywords

\* A paragraph: lines none of which is blank, the first of which gives a key.
IsParagraph(ls) ==
    /\ ls # <<>>
    /\ GivesKey(ls[1])
    /\ \A i \in 1..Len(ls) : ls[i] # BlankLine

\* The paragraphs of a file that a blank line ends, in order, and the lines
\* after the last blank line.
Ended(lines) ==
    LET pieces == SplitOn(lines, BlankLine) IN Take(pieces, Len(pieces) - 1)

Unended(lines) ==
    LET pieces == SplitOn(lines, BlankLine) IN pieces[Len(pieces)]

\* The indented lines that follow line j - 1 of a paragraph one after the
\* other, stripped, each after a line break.
RECURSIVE Continuation(_, _)
Continuation(ls, j) ==
    IF j > Len(ls) \/ ~Indented(ls[j]) THEN <<>>
    ELSE <<"\n">> \o Strip(ls[j]) \o Continuation(ls, j + 1)

\* The indented lines between line j - 1 of a paragraph and the next line
\* that gives a retained key, stripped, each after a line break.
RECURSIVE ContinuationAcross(_, _)
ContinuationAcross(ls, j) ==
    IF j > Len(ls) \/ GivesRetained(ls[j]) THEN <<>>
    ELSE IF Indented(ls[j])
         THEN <<"\n">> \o Strip(ls[j]) \o ContinuationAcross(ls, j + 1)
         ELSE ContinuationAcross(ls, j + 1)

\* The last line of a paragraph that gives the key k.
LastGiving(ls, k) ==
    CHOOSE i \in 1..Len(ls) :
        /\ GivesRetained(ls[i]) /\ KeyGiven(ls[i]) = k
        /\ \A j \in (i + 1)..Len(ls) : ~(GivesRetained(ls[j]) /\ KeyGiven(ls[j]) = k)

ValueGiven(line) == Strip(SplitOn(line, ":")[2])

\* The record of a paragraph: its retained keys, each with the value of the
\* last line giving it and the indented lines that directly follow that line.
ParagraphRecord(ls) ==
    [k \in {KeyGiven(ls[i]) : i \in {j \in 1..Len(ls) : GivesRetained(ls[j])}} |->
        ValueGiven(ls[LastGiving(ls, k)]) \o Continuation(ls, LastGiving(ls, k) + 1)]

\* The same with every indented line up to the next retained key.
ParagraphRecordAcross(ls) ==
    [k \in {KeyGiven(ls[i]) : i \in {j \in 1..Len(ls) : GivesRetained(ls[j])}} |->
        ValueGiven(ls[LastGiving(ls, k)])
            \o ContinuationAcross(ls, LastGiving(ls, k) + 1)]

\* The file is two paragraphs with one blank line between them, and at most
\* a blank line after the second.
TwoParagraphs(lines) ==
    \E i \in 2..(Len(lines) - 1), n \in {Len(lines) - 1, Len(lines)} :
        /\ i < n
        /\ lines[i] = BlankLine
        /\ n < Len(lines) => lines[Len(lines)] = BlankLine
        /\ IsParagraph(Take(lines, i - 1))
        /\ IsParagraph(SubSeq(lines, i + 1, n))

FirstOfTwo(lines) == SplitOn(lines, BlankLine)[1]

SecondOfTwo(lines) == SplitOn(lines, BlankLine)[2]

\* C24: paragraph parser.  For every file of two paragraphs with a blank
\* line between them, with or without a blank line after the second,
\* GetPackages returns two records: that of the first paragraph, then that
\* of the second.
C24_TwoParagraphsTwoRecords ==
    (pc = "returned" /\ TwoParagraphs(args.lines)) =>
        /\ ~hist.result.error
        /\ hist.result.packages = <<ParagraphRecord(FirstOfTwo(args.lines)),
                                    ParagraphRecord(SecondOfTwo(args.lines))>>

\* Every paragraph of the file starts with a line that gives a key.
Paragraphed(lines) ==
    /\ \A i \in 1..Len(Ended(lines)) :
          Ended(lines)[i] = <<>> \/ IsParagraph(Ended(lines)[i])
    /\ Unended(lines) = <<>> \/ IsParagraph(Unended(lines))

\* C25 as stated: a key that is not retained does not end the paragraph,
\* and every indented line is appended, stripped, to the value of the most
\* recently retained key of its paragraph.
C25_ContinuationsToLastRetained_AsStated ==
    (pc = "returned" /\ Paragraphed(args.lines)) =>
        /\ ~hist.result.error
        /\ hist.result.packages =
              [i \in 1..Len(Ended(args.lines)) |-> ParagraphRecordAcross(Ended(args.lines)[i])]

\* C25: a key that is not retained does not end the paragraph - there is
\* one record for every paragraph a blank line ends, holding the retained
\* keys given before and after it - and every indented line that follows
\* the line of a retained key, directly or after other indented lines, is
\* appended, stripped, to the value of that key; the indented lines that
\* follow a key that is not retained are skipped with it.
C25_ContinuationsToTheirKey ==
    (pc = "returned" /\ Paragraphed(args.lines)) =>
        /\ ~hist.result.error
        /\ hist.result.packages =
              [i \in 1..Len(Ended(args.lines)) |-> ParagraphRecord(Ended(args.lines)[i])]

\* A paragraph has been read in which a key that is not retained stands
\* between two retained keys and an indented line follows a retained key.
C25_SkippedKeyBetweenRetained ==
    /\ pc = "returned"
    /\ Len(args.lines) = 5
    /\ GivesRetained(args.lines[1])
    /\ Indented(args.lines[2])
    /\ GivesKey(args.lines[3]) /\ ~GivesRetained(args.lines[3])
    /\ GivesRetained(args.lines[4]) /\ KeyGiven(args.lines[4]) # KeyGiven(args.lines[1])
    /\ args.lines[5] = BlankLine
    /\ Len(hist.result.packages) = 1
    /\ DOMAIN hist.result.packages[1] =
          {KeyGiven(args.lines[1]), KeyGiven(args.lines[4])}

(***************************************************************************)
(* Repository._ParseReleaseFiles on its own: every short manifest, read    *)
(* for a binary and a source repository, with components and flat          *)
(***************************************************************************)

UriFlat == <<"http", ":", "/", "/", "a", "/", "flat">>

\* "deb URI /" and "deb-src URI /": no distribution, no components.
RepoFlatBin == Repository("Bin", <<"amd64">>, UriFlat, <<>>, <<>>)

RepoFlatSrc == Repository("Src", <<"amd64">>, UriFlat, <<>>, <<>>)

ContentsName == <<"main", "/", "Contents-", "amd64", ".", "gz">>

\* The lines a manifest is made of: two checksum headers, a line holding
\* both Hash: and SHA256:, a field that is no checksum header, three data
\* lines, an indented line of two fields.
ManifestLines ==
    { <<"SHA256", ":", "\n">>,
      <<"MD5Sum", ":", "\n">>,
      <<"Hash", ":", " ", "SHA256", ":", "\n">>,
      <<"Origin", ":", " ", "debian", "\n">>,
      Line("c2", "50", PackagesName \o <<".", "xz">>),
      Line("c1", "100", SourcesName \o <<".", "gz">>),
      Line("c1", "100", ContentsName),
      <<" ", "c1", " ", "100", "\n">> }

\* The longest manifest, in lines.
MaxManifest == 4

InitRelease ==
    /\ pc = "call"
    /\ run = 1
    /\ config = [repos |-> <<>>, noClean |-> <<>>]
    /\ args = [test |-> FALSE, clean |-> FALSE]
    /\ \E byHash \in BOOLEAN, contents \in BOOLEAN :
          settings = [SettingsOf(FALSE, TRUE) EXCEPT !.ByHash = byHash,
                                                     !.Contents = contents]
    /\ \E repo \in {RepoBin, RepoSrc, RepoFlatBin, RepoFlatSrc},
          lines \in UNION {[1..n -> ManifestLines] : n \in 0..MaxManifest} :
          /\ repositories = <<repo>>
          /\ skel = WriteFile(EmptyTree,
                              SanitiseUri(BaseUrl(repo)) \o <<"/", "Release">>,
                              File(100, 1, Plain(lines)))
    /\ filesToKeep = <<>>
    /\ releaseFiles = <<>>
    /\ indexFiles = <<>>
    /\ filesToDownload = <<>>
    /\ cwd = "skel"
    /\ mirror = EmptyTree
    /\ var = EmptyTree
    /\ remote = EmptyTree
    /\ clock = 2
    /\ pool = IdlePool
    /\ hist = NoHist
    /\ procs = NoProcs
    /\ lockFile = NoLockFile

\* indexFiles += repository.ParseReleaseFilesFromRemote()
ParseReleaseCall ==
    /\ pc = "call"
    /\ \E got \in {ParseReleaseFiles(repositories[1], skel, skel, settings)} :
          /\ pc' = IF got.error THEN "error" ELSE "returned"
          /\ repositories' = <<got.repo>>
          /\ indexFiles' = IF got.error THEN <<>> ELSE SetToSeq(got.indexFiles)
          /\ hist' = [hist EXCEPT !.result = [malformed |-> got.malformed]]
    /\ UNCHANGED <<run, args, settings, fixed, filesToKeep, releaseFiles,
                   filesToDownload, cwd, disk, remote, clock, pool>>

NextRelease == ParseReleaseCall

SpecRelease == InitRelease /\ [][NextRelease]_vars

\* The manifest the call has read.
Manifest == skel[normpath(SanitiseUri(BaseUrl(repositories[1])) \o <<"/", "Release">>)].data.lines

\* A checksum header: a line holding SHA256:, SHA1: or MD5Sum: and no Hash:.
HeaderType(line) ==
    IF Contains(line, <<"Hash", ":">>) THEN Unset
    ELSE IF Contains(line, <<"SHA256", ":">>) THEN <<"SHA256">>
    ELSE IF Contains(line, <<"SHA1", ":">>) THEN <<"SHA1">>
    ELSE IF Contains(line, <<"MD5Sum", ":">>) THEN <<"MD5Sum">>
    ELSE Unset

Fields(line) == NonEmpty(SplitOn(RStrip(line), " "))

\* The scan as a state machine: a header opens a section of its type, a
\* line that is not indented closes it, an indented line inside it is a
\* data line if it has three fields and is reported if not.
RECURSIVE SectionScan(_, _, _)
SectionScan(lines, type, acc) ==
    IF lines = <<>> THEN acc
    ELSE LET line == Head(lines)
         IN  IF HeaderType(line) # Unset
             THEN SectionScan(Tail(lines), HeaderType(line), acc)
             ELSE IF type = Unset \/ Head(line) # " "
             THEN SectionScan(Tail(lines), Unset, acc)
             ELSE IF Len(Fields(line)) # 3
             THEN SectionScan(Tail(lines), type, [acc EXCEPT !.malformed = @ + 1])
             ELSE SectionScan(Tail(lines), type,
                     [acc EXCEPT !.entries = @ \cup
                         {[checksumType |-> type,
                           checksum |-> Fields(line)[1],
                           filename |-> Fields(line)[3]]}])

Sections(lines) == SectionScan(lines, Unset, [entries |-> {}, malformed |-> 0])

\* <directory of the URL>/by-hash/<checksumType>/<checksum>
ByHashUrl(url, e) ==
    DirName(url) \o <<"/", "by-hash", "/">> \o e.checksumType \o <<"/">> \o e.checksum

\* C26: by-hash.  With by-hash enabled, for every data line of the manifest
\* whose file the call returns as a URL of a repository with components,
\* the call also returns <directory of that URL>/by-hash/<type>/<checksum>
\* with the type of the section of the line.
C26_ByHashForEveryEmittedFile ==
    (pc = "returned" /\ settings.ByHash /\ repositories[1].components # <<>>) =>
        \A e \in Sections(Manifest).entries :
            BaseUrl(repositories[1]) \o e.filename \in Range(indexFiles) =>
                ByHashUrl(BaseUrl(repositories[1]) \o e.filename, e)
                    \in Range(indexFiles)

\* C27: flat repositories.  For a repository with no components, binary or
\* source, the call returns the URL base + filename of every data line of
\* the manifest and the repository's collection holds every such URL under
\* the component name "Flat".
C27_FlatEmitsAndRegistersEveryFile ==
    (pc = "returned" /\ repositories[1].components = <<>>) =>
        \A e \in Sections(Manifest).entries :
            LET url == BaseUrl(repositories[1]) \o e.filename
            IN  /\ url \in Range(indexFiles)
                /\ IF repositories[1].repositoryType = "Bin"
                   THEN \E k \in DOMAIN repositories[1].packageCollection :
                            k[1] = "Flat" /\ k[3] = SanitiseUri(url)
                   ELSE \E k \in DOMAIN repositories[1].sourceCollection :
                            k[1] = "Flat" /\ k[2] = SanitiseUri(url)

\* C28: the scan as a state machine.  The call ends without an error, it
\* returns the URLs planned for the data lines of the sections that the
\* SHA256:, SHA1: and MD5Sum: headers open (a line holding Hash: opens
\* none), each line with the type of the latest header, it has reported the
\* indented lines of those sections that have not three fields, and the
\* list it returns names no URL twice.
C28_ScanIsSectionStateMachine ==
    pc # "call" =>
        /\ pc = "returned"
        /\ Range(indexFiles) =
              PlanAll(repositories[1], Sections(Manifest).entries, settings).urls
        /\ hist.result.malformed = Sections(Manifest).malformed
        /\ \A i, j \in 1..Len(indexFiles) : indexFiles[i] = indexFiles[j] => i = j

(***************************************************************************)
(* _GetFiles(True) against _GetFiles(False) over the collections of        *)
(* SpecCollection                                                          *)
(***************************************************************************)

\* The entries of the collection of a repository whose timestamps differ
\* (modified) or are equal (not modified).
EntriesModified(repo, modified) ==
    IF repo.repositoryType = "Bin"
    THEN {k[3] : k \in {x \in DOMAIN repo.packageCollection :
                           TimestampModified(repo.packageCollection[x]) = modified}}
    ELSE {k[2] : k \in {x \in DOMAIN repo.sourceCollection :
                           TimestampModified(repo.sourceCollection[x]) = modified}}

Stripped(files) == {splitext(f) : f \in files}

\* C29 as stated: in every state of a collection and under every setting of
\* the flags, what _GetFiles(True) and _GetFiles(False) return is disjoint
\* and together the extension-stripped paths of all entries.
C29_Complement_AsStated ==
    /\ GetIndexFiles(repositories[1], TRUE, settings)
          \cap GetIndexFiles(repositories[1], FALSE, settings) = {}
    /\ Returned(repositories[1]) = Stripped(EntriesOf(repositories[1]))

\* C29: in every state of a collection and under every setting of the
\* flags, the two results together are the extension-stripped paths of all
\* entries; with neither flag set _GetFiles(True) returns the stripped
\* paths of the modified entries and _GetFiles(False) those of the entries
\* that are not modified, so that the two are disjoint where no two forms
\* of one index differ in being modified; with a flag set each of the two
\* returns the stripped paths of all entries.
C29_ComplementEntryByEntry ==
    /\ Returned(repositories[1]) = Stripped(EntriesOf(repositories[1]))
    /\ IF settings.PreviousRunInterrupted \/ settings.ForceUpdate
       THEN /\ GetIndexFiles(repositories[1], TRUE, settings)
                  = Stripped(EntriesOf(repositories[1]))
            /\ GetIndexFiles(repositories[1], FALSE, settings)
                  = Stripped(EntriesOf(repositories[1]))
       ELSE /\ GetIndexFiles(repositories[1], TRUE, settings)
                  = Stripped(EntriesModified(repositories[1], TRUE))
            /\ GetIndexFiles(repositories[1], FALSE, settings)
                  = Stripped(EntriesModified(repositories[1], FALSE))

\* The timestamps have been recorded with the interrupted flag set over a
\* collection that holds a modified entry and one that is not modified.
C29_BothResultsUnderFlag ==
    /\ pc = "recorded"
    /\ settings.PreviousRunInterrupted
    /\ EntriesModified(repositories[1], TRUE) # {}
    /\ EntriesModified(repositories[1], FALSE) # {}
    /\ GetIndexFiles(repositories[1], FALSE, settings) # {}

(***************************************************************************)
(* Refrapt.filesToKeep through a mirror run                                *)
(***************************************************************************)

\* Every element is a normalised path with no scheme and no port.
KeepsCleanPaths ==
    \A i \in 1..Len(filesToKeep) :
        /\ normpath(filesToKeep[i]) = filesToKeep[i]
        /\ ~HasScheme(filesToKeep[i])
        /\ ~HasPort(filesToKeep[i])

\* No element stands twice in the list.
KeepsNoDuplicate ==
    \A i, j \in 1..Len(filesToKeep) : filesToKeep[i] = filesToKeep[j] => i = j

\* Where step 7 consults the list it holds the path of every Release file
\* (those of the repositories step 1a has dropped among them), of every
\* Index file and of every file an index has named.
KeepsEveryPathAdded ==
    pc = "gc" =>
        Range(KeepOf(releaseFiles)) \cup Range(KeepOf(indexFiles))
            \cup {filesToDownload[i].Filename : i \in 1..Len(filesToDownload)}
        \subseteq Range(filesToKeep)

\* C30: files-to-keep within one mirror run.  Every element is a normalised,
\* sanitised path, the list holds no element twice, and every path added
\* (release path, index path, package filename) is in it when the clean of
\* step 7 consults it.
C30_FilesToKeepCleanUniqueAndGrowing ==
    (~args.clean /\ pc \in Running) =>
        /\ KeepsCleanPaths
        /\ KeepsNoDuplicate
        /\ KeepsEveryPathAdded

(***************************************************************************)
(* A repository below the mirror subtree of another                        *)
(***************************************************************************)

\* Archive N is published below the URI of archive A.
UriN == UriA \o <<"/", "sub">>

DistsN == <<"a", "/", "debian", "/", "sub", "/", "dists", "/", "bookworm", "/">>

PoolN == <<"a", "/", "debian", "/", "sub", "/", "pool", "/">>

\* The tree with what the server of archive N serves added to it.
RemoteN(tree, t) ==
    WriteFile(
        WriteFile(
            WriteFile(tree, DistsN \o <<"Release">>, File(100, t, Plain(ReleaseLinesC))),
            DistsN \o PackagesName \o <<".", "xz">>,
            File(50, t, [format |-> "xz", lines |-> PackagesLines])),
        PoolN \o <<"x_1", ".", "deb">>, File(42, 1, NoData))

RepoN == Repository("Bin", <<"amd64">>, UriN, Bookworm, <<"main">>)

\* Configuration files with archive N after and before archive A, and with
\* two repositories of archive A.
NestedConfigs ==
    { [repos |-> <<RepoBin, RepoN>>, noClean |-> <<>>],
      [repos |-> <<RepoN, RepoBin>>, noClean |-> <<>>],
      [repos |-> <<RepoBin, RepoSrc>>, noClean |-> <<>>] }

InitNested == InitWith(NestedConfigs, {RemoteN(RemoteA(1), 1)})

\* One archive publishes its indices anew: the files below its dists
\* directory get a later Last-Modified time, the content stays.
RepublishedBelow(tree, dists) ==
    [p \in DOMAIN tree |->
        IF tree[p].kind = "file" /\ IsPrefix(dists, p)
        THEN [tree[p] EXCEPT !.mtime = @ + 1]
        ELSE tree[p]]

\* The program is started again after a completed run; in between any of
\* the archives may have published its indices anew.
RerunNested ==
    StartOver({"done"},
              {remote, RepublishedBelow(remote, DistsA), RepublishedBelow(remote, DistsN)},
              {mirror}, TRUE)

NextNested ==
    \/ Preflight
    \/ AcquireLock
    \/ StartRelease
    \/ \E w \in Workers : WorkerStart(w)
    \/ \E w \in Workers : WorkerFinish(w)
    \/ PoolDone
    \/ DiscoverIndices
    \/ Timestamping
    \/ Decompress
    \/ ParseIndices
    \/ Publish
    \/ PostMirrorCleanStep
    \/ TestTail
    \/ PerformClean
    \/ Finish
    \/ RerunNested

SpecNested == InitNested /\ [][NextNested]_vars

\* The repositories Post-Mirror Clean selects: clean-enabled and modified.
Selected == {r \in Range(repositories) : r.clean /\ RepoModified(r, settings)}

\* Two URIs share a prefix: one begins with the other.
SharePrefix(u, v) == IsPrefix(u, v) \/ IsPrefix(v, u)

\* The files the unmodified indices of a repository name, read below skel/.
UnmodifiedFiles(repo) ==
    LET got == ProcessIndices(repo, skel, mirror,
                              SetToSeq(GetIndexFiles(repo, FALSE, settings)), TRUE,
                              settings)
    IN  {got.packages[i].Filename : i \in 1..Len(got.packages)}

\* C31: Post-Mirror Clean.  When the clean of step 7 has run, for every
\* selected repository (clean-enabled and modified) and every repository
\* whose URI shares a prefix with its URI, the one whose URI extends it
\* among them, every file an unmodified index of that repository names is in
\* the required set handed to Clean and has not been deleted.
C31_NeighboursFilesRequired ==
    (pc = "tail" /\ hist.cleans = 1) =>
        \A c \in Selected : \A x \in Range(repositories) :
            SharePrefix(x.uri, c.uri) =>
                \A f \in UnmodifiedFiles(x) :
                    /\ f \in hist.required
                    /\ \A d \in hist.removed : d.path # f

(***************************************************************************)
(* The end of a test-mode mirror run and the run after it                  *)
(***************************************************************************)

\* C32: test-mode tail.  When a test-mode mirror run has passed the end of
\* PerformMirroring, no Release or Index file it fetched is a file below
\* skel/; and in the next mirror run, when it is not in test mode, every
\* entry left in a collection after the Index download has current
\* timestamp 0 and is modified, its index is parsed, and every file the
\* indices name that the archive serves is in mirror/ after the Archive
\* download.
C32_TestRunForgetsWhatItFetched ==
    /\ (settings.Test /\ ~args.clean /\ pc \in {"finish", "done"}) =>
          \A f \in Range(releaseFiles \o indexFiles) : ~isfile(skel, SanitiseUri(f))
    /\ (hist.prev.tested /\ ~settings.Test /\ ~args.clean
            /\ pc \in {"decompress", "parse", "publish", "gc", "tail"}) =>
          \A i \in 1..Len(repositories) :
              \A t \in TimestampsOf(repositories[i]) :
                  t.Current = 0 /\ TimestampModified(t)
    /\ (hist.prev.tested /\ ~settings.Test /\ ~args.clean
            /\ pc \in {"publish", "gc", "tail"}) =>
          /\ \A i \in 1..Len(repositories) :
                \A f \in EntriesOf(repositories[i]) : splitext(f) \in hist.parsed
          /\ \A x \in hist.files : Served(x.Filename) => isfile(mirror, x.Filename)

\* A mirror run after a test-mode mirror run has fetched an index again and
\* has parsed it, over an archive that has not changed in between.
C32_IndexFetchedAgainAfterTestRun ==
    /\ hist.prev.tested /\ ~settings.Test /\ ~args.clean
    /\ pc = "publish"
    /\ \E i \in 1..Len(repositories) :
          \E f \in EntriesOf(repositories[i]) :
              /\ splitext(f) \in hist.parsed
              /\ Times(hist.finished, <<"Index", <<"http", ":", "/", "/">> \o f>>) = 1
    /\ hist.files # {}
    /\ remote = RemoteA(1)

(***************************************************************************)
(* Downloader.DownloadUrlsProcess statement by statement: what a worker    *)
(* has done last is kept in pool.at                                        *)
(***************************************************************************)

\* Where a worker holds the lock of its marker.
Holding == {"locked", "opened", "marked", "transfer", "back", "removed"}

\* Downloader.Download is called with the list: nothing is started for an
\* empty list, else the pool is created with idle workers.
DownloadCall ==
    /\ pc = "call"
    /\ IF releaseFiles = <<>>
       THEN pc' = "returned" /\ pool' = IdlePool
       ELSE /\ pc' = "download"
            /\ pool' = [kind |-> "Release", urls |-> releaseFiles,
                        busy |-> [w \in Workers |-> NoUrl], next |-> "returned",
                        at |-> [w \in Workers |-> "idle"]]
    /\ UNCHANGED <<run, args, settings, fixed, repositories, lists, cwd, disk,
                   remote, clock, hist>>

\* An idle worker is handed the next URL and enters
\* `with FileLock(f"{filename}.lock")`.
TakeLock(w) ==
    /\ pc = "download"
    /\ pool.at[w] = "idle"
    /\ pool.urls # <<>>
    /\ pool' = [pool EXCEPT !.urls = Tail(@), !.busy[w] = Head(pool.urls),
                            !.at[w] = "locked"]
    /\ var' = WriteFile(var, LockOf(MarkerOf(w)), File(0, clock, NoData))
    /\ UNCHANGED <<pc, run, args, settings, fixed, repositories, lists, cwd, skel,
                   mirror, remote, clock, hist>>

\* open(filename, "w"): the marker is created, or cut to nothing.
OpenMarker(w) ==
    /\ pc = "download"
    /\ pool.at[w] = "locked"
    /\ pool' = [pool EXCEPT !.at[w] = "opened"]
    /\ var' = WriteFile(var, MarkerOf(w), File(0, clock, Plain(<<>>)))
    /\ UNCHANGED <<pc, run, args, settings, fixed, repositories, lists, cwd, skel,
                   mirror, remote, clock, hist>>

\* A worker that closes its marker with nothing written to it.
WriteMarker_Nothing(w) ==
    /\ pc = "download"
    /\ pool.at[w] = "opened"
    /\ pool' = [pool EXCEPT !.at[w] = "marked"]
    /\ UNCHANGED <<pc, run, args, settings, fixed, repositories, lists, cwd, disk,
                   remote, clock, hist>>

\* f.write(normalisedUrl) and the end of `with open`: the marker holds the
\* URL.
WriteMarker(w) ==
    /\ pc = "download"
    /\ pool.at[w] = "opened"
    /\ pool' = [pool EXCEPT !.at[w] = "marked"]
    /\ var' = WriteFile(var, MarkerOf(w), File(0, clock, Plain(<<pool.busy[w]>>)))
    /\ UNCHANGED <<pc, run, args, settings, fixed, repositories, lists, cwd, skel,
                   mirror, remote, clock, hist>>

\* system(command): wget begins to write its log and the file.
WgetStarts(w) ==
    /\ pc = "download"
    /\ pool.at[w] = "marked"
    /\ pool' = [pool EXCEPT !.at[w] = "transfer"]
    /\ var' = WriteFile(var, LogOf(pool.kind, w), File(0, clock, NoData))
    /\ skel' = BeginTransfer(skel, pool.busy[w])
    /\ hist' = [hist EXCEPT !.started = Tally(@, <<pool.kind, pool.busy[w]>>)]
    /\ UNCHANGED <<pc, run, args, settings, fixed, repositories, lists, cwd,
                   mirror, remote, clock>>

\* system(command) returns: wget has written the file, or has given up.
WgetReturns(w) ==
    /\ pc = "download"
    /\ pool.at[w] = "transfer"
    /\ pool' = [pool EXCEPT !.at[w] = "back"]
    /\ skel' = EndTransfer(skel, pool.busy[w])
    /\ hist' = [hist EXCEPT !.finished = Tally(@, <<pool.kind, pool.busy[w]>>)]
    /\ UNCHANGED <<pc, run, args, settings, fixed, repositories, lists, cwd,
                   mirror, var, remote, clock>>

\* remove(filename)
RemoveMarker(w) ==
    /\ pc = "download"
    /\ pool.at[w] = "back"
    /\ pool' = [pool EXCEPT !.at[w] = "removed"]
    /\ var' = RemoveFile(var, MarkerOf(w))
    /\ UNCHANGED <<pc, run, args, settings, fixed, repositories, lists, cwd, skel,
                   mirror, remote, clock, hist>>

\* The end of `with FileLock`: the lock is released (its file stays, as on
\* Unix) and the worker is idle again.
ReleaseLock(w) ==
    /\ pc = "download"
    /\ pool.at[w] = "removed"
    /\ pool' = [pool EXCEPT !.at[w] = "idle", !.busy[w] = NoUrl]
    /\ UNCHANGED <<pc, run, args, settings, fixed, repositories, lists, cwd, disk,
                   remote, clock, hist>>

\* The loop over imap_unordered has taken every result and the pool ends.
DownloadReturns ==
    /\ pc = "download"
    /\ pool.urls = <<>>
    /\ \A w \in Workers : pool.at[w] = "idle"
    /\ pc' = "returned"
    /\ pool' = IdlePool
    /\ UNCHANGED <<run, args, settings, fixed, repositories, lists, cwd, disk,
                   remote, clock, hist>>

NextWorker ==
    \/ DownloadCall
    \/ \E w \in Workers : TakeLock(w)
    \/ \E w \in Workers : OpenMarker(w)
    \/ \E w \in Workers : WriteMarker(w)
    \/ \E w \in Workers : WgetStarts(w)
    \/ \E w \in Workers : WgetReturns(w)
    \/ \E w \in Workers : RemoveMarker(w)
    \/ \E w \in Workers : ReleaseLock(w)
    \/ DownloadReturns

SpecWorker == InitPool /\ [][NextWorker]_vars

\* C33: the crash-marker protocol of a worker.  While the pool runs, the
\* marker of a worker is in var/ only where the worker holds the lock of
\* the marker; where the transfer of a URL is running the marker of its
\* worker is in var/ and names that URL, and every file that is partly
\* written is the target of a marker; a marker is gone only where no
\* transfer of its worker is running; and when the call of the pool has
\* returned no marker is left in var/.
C33_MarkerCoversEveryTransfer ==
    /\ pc = "download" =>
          /\ \A w \in Workers :
                /\ isfile(var, MarkerOf(w)) => pool.at[w] \in Holding
                /\ pool.at[w] = "transfer" =>
                      /\ isfile(var, MarkerOf(w))
                      /\ FirstLine(var[MarkerOf(w)]) = pool.busy[w]
          /\ \A q \in DOMAIN skel :
                (skel[q].kind = "file" /\ ~skel[q].whole) =>
                      \E w \in Workers :
                          /\ isfile(var, MarkerOf(w))
                          /\ Target(FirstLine(var[MarkerOf(w)])) = q
    /\ pc = "returned" => Markers(var) = {}

\* Every worker of the pool is in a transfer, and a file is partly written
\* below skel/.
C33_EveryWorkerInATransfer ==
    /\ pc = "download"
    /\ \A w \in Workers : pool.at[w] = "transfer" /\ isfile(var, MarkerOf(w))
    /\ \E q \in DOMAIN skel : skel[q].kind = "file" /\ ~skel[q].whole

(***************************************************************************)
(* A mirror run killed during its Index download, and the runs after it    *)
(***************************************************************************)

\* Invocations one after another where the first ones may be killed.
MaxRestarts == 3

InitInterrupted ==
    InitWith({[repos |-> <<RepoBin>>, noClean |-> <<>>]}, {RemoteA(1)})

\* What is left of a killed process: the disk.
Killed(cut) ==
    /\ pc' = "killed"
    /\ pool' = IdlePool
    /\ repositories' = <<>>
    /\ filesToKeep' = <<>>
    /\ releaseFiles' = <<>>
    /\ indexFiles' = <<>>
    /\ filesToDownload' = <<>>
    /\ hist' = [NoHist EXCEPT !.cut = cut]
    /\ UNCHANGED <<run, args, settings, fixed, cwd, disk, remote, clock>>

\* A mirror run is killed after the transfer of an Index file has started
\* and before the Index download has returned.
KillInFetch ==
    /\ pc = "download"
    /\ pool.kind = "Index"
    /\ \E k \in DOMAIN hist.started : k[1] = "Index"
    /\ run < MaxRestarts
    /\ Killed(TRUE)

\* A run is killed when main() has removed what var/ held and has not yet
\* written the sentinel.
KillAtLock ==
    /\ pc = "lock"
    /\ run < MaxRestarts
    /\ Killed(hist.cut)

\* The program is started again; the archive may have published its indices
\* anew in between.  The interruption of an Index download is remembered for
\* the properties until a mirror run after it has ended.
RestartInterrupted ==
    StartOverWith({"done", "killed", "error"}, {remote, Republished(remote)}, {mirror},
                  FALSE, MaxRestarts,
                  hist.cut /\ (args.clean \/ pc = "killed"))

NextInterrupted ==
    \/ Preflight
    \/ AcquireLock
    \/ StartRelease
    \/ \E w \in Workers : WorkerStart(w)
    \/ \E w \in Workers : WorkerFinish(w)
    \/ PoolDone
    \/ DiscoverIndices
    \/ Timestamping
    \/ Decompress
    \/ ParseIndices
    \/ Publish
    \/ PostMirrorCleanStep
    \/ TestTail
    \/ PerformClean
    \/ Finish
    \/ KillInFetch
    \/ KillAtLock
    \/ RestartInterrupted

SpecInterrupted == InitInterrupted /\ [][NextInterrupted]_vars

\* Every entry of the collections is among the modified indices.
EveryEntryModified ==
    \A i \in 1..Len(repositories) :
        \A f \in EntriesOf(repositories[i]) :
            splitext(f) \in GetIndexFiles(repositories[i], TRUE, settings)

\* C34: interruption is never forgotten across runs.  After a mirror run
\* was killed between the start and the end of its Index download, the
\* first mirror run after it that reaches the enumeration of the artifacts
\* finds every index entry modified, whatever clean-mode runs and runs
\* killed before the sentinel was written have come in between.
C34_InterruptionNeverForgotten ==
    (hist.cut /\ ~args.clean /\ pc = "parse") => EveryEntryModified

(***************************************************************************)
(* Completed runs where the transfer of an artifact may fail               *)
(***************************************************************************)

\* DownloadUrlsProcess from the return of a wget that has given up on an
\* artifact (the connection broke; os.system returns its exit status and
\* nothing looks at it): the file stays as far as it was written, the
\* marker is removed.
WorkerFails(w) ==
    /\ pc = "download"
    /\ pool.kind = "Archive"
    /\ pool.busy[w] # NoUrl
    /\ var' = RemoveFile(var, MarkerOf(w))
    /\ pool' = [pool EXCEPT !.busy[w] = NoUrl]
    /\ hist' = [hist EXCEPT !.finished = Tally(@, <<pool.kind, pool.busy[w]>>),
                            !.failed = @ \cup {pool.busy[w]}]
    /\ UNCHANGED <<pc, run, args, settings, fixed, repositories, lists, cwd, skel,
                   mirror, remote, clock>>

\* The program is started again after a completed run; nothing outside the
\* program has touched the archive or the disk.
RerunUnchanged == StartOver({"done"}, {remote}, {mirror}, TRUE)

NextFailing ==
    \/ Preflight
    \/ AcquireLock
    \/ StartRelease
    \/ \E w \in Workers : WorkerStart(w)
    \/ \E w \in Workers : WorkerFinish(w)
    \/ \E w \in Workers : WorkerFails(w)
    \/ PoolDone
    \/ DiscoverIndices
    \/ Timestamping
    \/ Decompress
    \/ ParseIndices
    \/ Publish
    \/ PostMirrorCleanStep
    \/ TestTail
    \/ PerformClean
    \/ Finish
    \/ RerunUnchanged

SpecFailing == Init /\ [][NextFailing]_vars

\* The files the indices of the repositories name, read below skel/.
Referenced ==
    UNION {LET got == ProcessIndices(repositories[i], skel, mirror,
                          SetToSeq(GetIndexFiles(repositories[i], TRUE, settings)
                                   \cup GetIndexFiles(repositories[i], FALSE, settings)),
                          TRUE, settings)
           IN  {[Filename |-> got.packages[j].Filename, Size |-> got.packages[j].Size] :
                   j \in 1..Len(got.packages)} :
           i \in 1..Len(repositories)}

\* C35: a failed artifact is fetched again.  When a mirror run in which no
\* transfer failed has ended after a completed mirror run over the same
\* archive, every file an index names is in mirror/ with its declared size,
\* whether or not a transfer of the run before had failed.
C35_FailedArtifactFetchedAgain ==
    (pc = "done" /\ ~args.clean /\ ~settings.Test /\ hist.prev.done
        /\ hist.failed = {}) => Present(Referenced, mirror)

(***************************************************************************)
(* The scan of var/ for crash markers after an interrupted Index download  *)
(***************************************************************************)

\* C36: the crash-marker scan deletes only half-written files.  Where a
\* marker of var/ names a path whose file below skel/ was partly written
\* when the run was killed and whose file below mirror/ is complete, the
\* file below mirror/ is still there when main() has scanned var/.
C36_ScanKeepsPublishedCopy ==
    pc = "lock" => \A p \in hist.intact : isfile(mirror, p)

(***************************************************************************)
(* The mirror tree through a test-mode mirror run                          *)
(***************************************************************************)

\* C37: a test-mode mirror run that started with no crash marker naming a
\* file of the mirror tree leaves the mirror tree as it is: no step of the
\* run, from the scan of var/ to the end of main(), fetches, copies or
\* deletes anything below mirror/.
C37_TestRunLeavesMirrorUnchanged ==
    [][(settings.Test /\ ~args.clean /\ hist.pending = {}
            /\ pc \in Running \cup {"start"}) => mirror' = mirror]_vars

\* A test-mode mirror run has come to its end with artifacts to fetch,
\* files below skel/ that mirror/ does not have and a file in mirror/ that
\* no index names.
C37_TestRunHadWorkToSkip ==
    /\ settings.Test /\ ~args.clean /\ hist.pending = {}
    /\ pc = "finish"
    /\ \E i \in 1..Len(filesToDownload) : ~filesToDownload[i].Latest
    /\ \E i \in 1..Len(filesToKeep) : ~isfile(mirror, filesToKeep[i])
    /\ isfile(mirror, OrphanPath)
    /\ settings.CleanEnabled

(***************************************************************************)
(* The roots of a pass of Clean                                            *)
(***************************************************************************)

\* The repositories handed to Clean: in clean mode those whose dists
\* directory is in mirror/, at the end of a mirror run the selected ones.
Selection ==
    IF args.clean
    THEN {r \in Range(repositories) :
             isdir(mirror, SanitiseUri(r.uri) \o <<"/", "dists", "/">> \o r.distribution)}
    ELSE Selected

\* The path lies below the mirror subtree of the URI.
Below(uri, path) == IsPrefix(SanitiseUri(RStripSlash(uri)) \o <<"/">>, path)

\* C38: Clean deletes only inside the roots it was given.  When a pass of
\* Clean has run, every path it removed lies below the mirror subtree of a
\* repository of the selection handed to it, and none lies below the mirror
\* subtree of a URI of the configuration that no repository of the
\* selection has.  (Clean writes nothing but the mirror tree: skel/ and
\* var/ are not in its reach.)
C38_CleanDeletesInsideItsRootsOnly ==
    (hist.cleans = 1 /\ pc \in {"tail", "finish", "done"}) =>
        \A d \in hist.removed :
            /\ \E r \in Selection : Below(r.uri, d.path)
            /\ \A x \in Range(config.repos) :
                  x.uri \notin {r.uri : r \in Selection} => ~Below(x.uri, d.path)

====
